---- MODULE Spec2Model ----
(***************************************************************************)
(* Outage timeline resolution of custom_components/yasno_outages/api.py:   *)
(* the YasnoOutagesApi object (schedule, daily_schedule), its fetch, and   *)
(* the evaluation of gen_events, one merged edge per step.                 *)
(*                                                                         *)
(* Time is counted in whole hours since 00:00 of a Monday (day 0), so      *)
(* weekday(t) = (t \div 24) % 7 with Monday = 0 as in datetime.weekday().  *)
(* Slot times are whole hours of the day, 0..24.                           *)
(***************************************************************************)
EXTENDS Integers, Sequences, FiniteSets, TLC

\* The fields self.schedule and self.daily_schedule of the YasnoOutagesApi
\* object, the gen_events frame of the query in flight (call), and a second
\* frame on the same object (other), and the fetch_schedule call in flight
\* (fetch).
VARIABLES schedule, daily_schedule, call, other, fetch

\* The field self.planned_outages_data of a PlannedOutagesApi object
\* (api/planned.py), and the last call on that object with what it gave
\* (answer).
VARIABLES planned_outages_data, answer

\* The argument and the result of a call of merge_consecutive_outages
\* (helpers.py): outages, merged; and of a call of _parse_group_hours
\* (svitlo_yeah/api/dtek.py): group_hours, ranges.
VARIABLES outages, merged, group_hours, ranges

\* The field self.probable_outages_data of a ProbableOutagesApi object
\* (api/probable.py), and the last get_events call on that object with
\* what it gave (listed).
VARIABLES probable_outages_data, listed

\* The class attributes DtekAPI._last_fetch and DtekAPI._cached_data
\* (svitlo_yeah/api/dtek.py), the field self.data of each DtekAPI object
\* (self_data), the clock that datetime.now reads, the fetch_data call of
\* each object that waits for its response (flight), and the last
\* fetch_data call that began (served).
VARIABLES _last_fetch, _cached_data, self_data, clock, flight, served

\* The YasnoOutagesCoordinator object (coordinator.py): its fields
\* region_id, provider_id and api, and the _async_update_data call in
\* flight or the last one that ended (update).
VARIABLES coordinator, update

\* ------------------------------------------------------------ constants
START_OF_DAY == 0
END_OF_DAY == 24
\* datetime.timedelta(days=1), in hours
DayHours == 24
\* the weekly table is aligned to start_date.weekday(), 0..6
WeekDays == 7
\* `now = None` before the first edge
NoneT == -1

\* The last day a datetime can hold (datetime.max, scaled down): stepping
\* past it raises OverflowError.
MaxDay == 34

MaxT == MaxDay * DayHours + (DayHours - 1)

\* ------------------------------------------------------------ data
Slot(s, e, t) == [start |-> s, end |-> e, type |-> t]

\* self.schedule: None after construction, {} after a failed fetch, or the
\* group's 7 day lists
ScheduleNone == [kind |-> "None", days |-> <<>>]
ScheduleEmpty == [kind |-> "Empty", days |-> <<>>]
ScheduleOf(days) == [kind |-> "Table", days |-> days]

\* self.daily_schedule: None, or the city's exception records in the order
\* of the response; date is the day number parsed from the title
DailyNone == [kind |-> "None", recs |-> <<>>]
DailyOf(recs) == [kind |-> "Data", recs |-> recs]
\* An exception record ex: title = "date" when ex['title'] holds the date of
\* day d, "none" when it holds no D.M.Y text, "bad" when its D.M.Y text is no
\* calendar date (31.02.2024); group = whether ex['groups'] has a list for
\* self.group.
ExDay(d, slots) == [date |-> d, slots |-> slots, title |-> "date", group |-> TRUE]
ExNoDate(slots) == [date |-> 0, slots |-> slots, title |-> "none", group |-> TRUE]
ExBadDate(slots) == [date |-> 0, slots |-> slots, title |-> "bad", group |-> TRUE]
ExNoGroup(d) == [date |-> d, slots |-> <<>>, title |-> "date", group |-> FALSE]
\* daily_schedule without an entry for self.city
DailyNoCity == [kind |-> "NoCity", recs |-> <<>>]

\* ------------------------------------------------------------ inputs
O(s, e) == Slot(s, e, "outage")
M(s, e) == Slot(s, e, "maintenance")

MondayMenu == { <<>>, <<O(9, 10)>>, <<O(0, 12)>>, <<O(0, 24)>> }
TuesdayMenu == { <<>>, <<O(0, 24)>>, <<O(0, 12), M(12, 24)>> }
SundayMenu == { <<>>, <<O(12, 24)>>, <<O(0, 24)>> }

WeekOf(mon, tue, sun) == <<mon, tue, <<>>, <<>>, <<>>, <<>>, sun>>
Unbroken == [i \in 1..WeekDays |-> <<O(0, 24)>>]

Tables ==
    { WeekOf(mon, tue, sun) : mon \in MondayMenu, tue \in TuesdayMenu, sun \in SundayMenu }
    \cup { Unbroken }

OverrideMenu == { <<>>, <<M(0, 24)>>, <<O(12, 24)>>, <<O(0, 12)>> }
PairMenu == { <<>>, <<O(12, 24)>>, <<O(0, 12)>> }

\* records that cannot be used, and exception sets that hold one of them
\* alone, before, or after a usable record
FaultyRecords == { ExNoDate(<<M(0, 24)>>), ExBadDate(<<>>), ExNoGroup(6) }

FaultyExceptionSets ==
    { <<b>> : b \in FaultyRecords }
    \cup { <<b, ExDay(7, <<O(12, 24)>>)>> : b \in FaultyRecords }
    \cup { <<ExDay(7, <<O(12, 24)>>), b>> : b \in FaultyRecords }

ExceptionSets ==
    { <<>> }
    \cup { <<ExDay(d, s)>> : d \in {5, 6, 7, 8}, s \in OverrideMenu }
    \cup { <<ExDay(d1, s1), ExDay(d2, s2)>> : d1 \in {6, 7}, d2 \in {6, 7}, s1 \in PairMenu, s2 \in PairMenu }
    \cup { <<ExDay(7, <<O(0, 12), O(12, 24)>>)>> }
    \cup FaultyExceptionSets

QueryStarts == {144, 168, 177, 192}
QueryEnds == {168, 177, 192, 216}
QueryAts == {156, 177, 180, 192}

\* ------------------------------------------------------------ edges
Edge(at, priority, action, type) ==
    [at |-> at, priority |-> priority, action |-> action, type |-> type]

\* date.replace(hour=0, minute=0, second=0, microsecond=0)
Midnight(date) == date - (date % DayHours)

\* start_date.weekday()
Weekday(date) == (date \div DayHours) % WeekDays

_build_event_hour(date, start_hour) ==
    IF start_hour = END_OF_DAY
    THEN Midnight(date + DayHours) + START_OF_DAY
    ELSE Midnight(date) + start_hour

gen_event(base_date, event, priority) ==
    << Edge(_build_event_hour(base_date, event.start), priority, "open", event.type),
       Edge(_build_event_hour(base_date, event.end), priority, "close", event.type) >>

get_group_schedule(sched) ==
    IF sched.kind = "Table" THEN sched.days ELSE <<>>

\* ------------------------------------------------------------ weekly source
\* Position of the generator gen_schedule_recurrent_events: st is "y" while
\* it stands at a yield (day cday, list index di, slot ei, ph 0 = the open
\* edge, 1 = the close edge), "stop" when it returned, "over" when stepping
\* the date raised OverflowError.
WPos(st, cday, di, ei, ph) == [st |-> st, cday |-> cday, di |-> di, ei |-> ei, ph |-> ph]
WStop == WPos("stop", 0, 1, 1, 0)
WOver == WPos("over", 0, 1, 1, 0)

HeadW(gs, w) == gen_event(w.cday, gs[w.di][w.ei], 1)[w.ph + 1]

\* _build_event_hour adds a day for END_OF_DAY: out of range on the last day
CheckW(gs, w) ==
    IF w.st = "y" /\ HeadW(gs, w).at > MaxT THEN WOver ELSE w

\* the loops `while True: for day_events in group_schedule: for event in
\* day_events` from the top of day (cday, di) to the next yield
RECURSIVE SeekW(_, _, _)
SeekW(gs, cday, di) ==
    IF cday > MaxDay * DayHours THEN WOver
    ELSE IF Len(gs[di]) > 0 THEN CheckW(gs, WPos("y", cday, di, 1, 0))
    ELSE SeekW(gs, cday + DayHours, IF di = Len(gs) THEN 1 ELSE di + 1)

\* gen_schedule_recurrent_events with cday set to the midnight of start_date,
\* the days back to Monday not subtracted
gen_schedule_recurrent_events_FromAnchor(gs, start_date) ==
    IF Len(gs) = 0 THEN WStop
    ELSE SeekW(gs, Midnight(start_date), 1)

gen_schedule_recurrent_events(gs, start_date) ==
    IF Len(gs) = 0 THEN WStop
    ELSE SeekW(gs, Midnight(start_date) - DayHours * Weekday(start_date), 1)

\* resume the generator after the edge at w
AdvanceW(gs, w) ==
    IF w.ph = 0 THEN CheckW(gs, [w EXCEPT !.ph = 1])
    ELSE IF w.ei < Len(gs[w.di]) THEN CheckW(gs, [w EXCEPT !.ei = w.ei + 1, !.ph = 0])
    ELSE SeekW(gs, w.cday + DayHours, IF w.di = Len(gs) THEN 1 ELSE w.di + 1)

\* ------------------------------------------------------------ exception source
RECURSIVE SlotEdges(_, _, _)
SlotEdges(day_date, slots, priority) ==
    IF slots = <<>> THEN <<>>
    ELSE gen_event(day_date, Head(slots), priority) \o SlotEdges(day_date, Tail(slots), priority)

\* base_date.replace(year=y, month=m, day=d): the day of the title, the time
\* of day of base_date
DayDate(base_date, d) == d * DayHours + (base_date % DayHours)

\* what a record makes the generator raise instead of going on: "" = nothing
RecordRaises(ex) ==
    IF ex.title = "bad" THEN "ValueError"                      \* base_date.replace(...)
    ELSE IF ex.title = "date" /\ ~ex.group THEN "KeyError"     \* ex['groups'][self.group]
    ELSE ""

\* the edges a record yields (up to the point where it raises)
RecordEdges(base_date, ex) ==
    LET day_date == DayDate(base_date, ex.date)
    IN  IF ex.title # "date" THEN <<>>
        ELSE << Edge(_build_event_hour(day_date, 0), 2, "open", "none") >>
             \o (IF ex.group
                 THEN SlotEdges(day_date, ex.slots, 3)
                      \o << Edge(_build_event_hour(day_date, 24), 2, "close", "none") >>
                 ELSE <<>>)

RECURSIVE AllRecordEdges(_, _)
AllRecordEdges(base_date, recs) ==
    IF recs = <<>> THEN <<>>
    ELSE RecordEdges(base_date, Head(recs))
         \o (IF RecordRaises(Head(recs)) # "" THEN <<>>
             ELSE AllRecordEdges(base_date, Tail(recs)))

RECURSIVE AllRecordRaises(_)
AllRecordRaises(recs) ==
    IF recs = <<>> THEN ""
    ELSE IF RecordRaises(Head(recs)) # "" THEN RecordRaises(Head(recs))
    ELSE AllRecordRaises(Tail(recs))

\* the whole (finite) sequence of edges the generator yields, in its order
gen_exception_events(daily, base_date) ==
    IF daily.kind = "Data" THEN AllRecordEdges(base_date, daily.recs) ELSE <<>>

\* the exception the generator raises after its last edge: "" = none
gen_exception_raises(daily) ==
    IF daily.kind = "NoCity" THEN "KeyError"      \* self.daily_schedule[self.city]
    ELSE IF daily.kind = "Data" THEN AllRecordRaises(daily.recs)
    ELSE ""

\* ------------------------------------------------------------ merge
\* key=lambda ev: (ev['at'], ev['priority'] if close else -ev['priority'])
KeyPri(ev) == IF ev.action = "close" THEN ev.priority ELSE 0 - ev.priority

KeyLess(a, b) == a.at < b.at \/ (a.at = b.at /\ KeyPri(a) < KeyPri(b))

\* heapq.merge compares (key, order): the weekly source is iterable 0 and
\* wins a tie
TakeWeekly(hasW, ew, hasX, ex) == hasW /\ (~hasX \/ ~KeyLess(ex, ew))

\* ------------------------------------------------------------ the stack
\* A stack entry: None (null), or {"summary", "start"} with "end" once closed
Null == [null |-> TRUE, summary |-> "", start |-> 0, end |-> 0, hasEnd |-> FALSE]
Open(summary, start) ==
    [null |-> FALSE, summary |-> summary, start |-> start, end |-> 0, hasEnd |-> FALSE]

OutageEvent(summary, start, end) == [summary |-> summary, start |-> start, end |-> end]

Max(a, b) == IF a > b THEN a ELSE b

Pop(stack) == SubSeq(stack, 1, Len(stack) - 1)

\* for _ in range(priority - len(stack)): stack.append(None)
RECURSIVE Pad(_, _)
Pad(stack, priority) ==
    IF Len(stack) >= priority THEN stack ELSE Pad(Append(stack, Null), priority)

\* stack = stack[0:priority-1] + [entry], after the padding
Place(stack, priority, entry) ==
    Append(SubSeq(Pad(stack, priority), 1, priority - 1), entry)

\* The running values of one evaluation: the stack, the cursor now, the
\* events yielded so far, ret once gen_events returned, err once it raised.
Loc(stack, now, out, ret, err) ==
    [stack |-> stack, now |-> now, out |-> out, ret |-> ret, err |-> err]

\* `if res['end'] > start_date: yield res`
Yield(out, res, start_date) == IF res.end > start_date THEN Append(out, res) ELSE out

\* api.py 203-218: while len(stack) > priority
RECURSIVE PopClosed(_, _, _, _)
PopClosed(m, priority, start_date, end_date) ==
    IF Len(m.stack) <= priority THEN m
    ELSE LET last == m.stack[Len(m.stack)] IN
         IF last.null THEN PopClosed([m EXCEPT !.stack = Pop(m.stack)], priority, start_date, end_date)
         ELSE IF ~last.hasEnd THEN m
         ELSE IF last.end > m.now
              THEN LET out == IF last.summary # "none"
                              THEN Yield(m.out, OutageEvent(last.summary, m.now, last.end), start_date)
                              ELSE m.out
                       m2 == Loc(Pop(m.stack), last.end, out, last.end > end_date, FALSE)
                   IN  IF m2.ret THEN m2 ELSE PopClosed(m2, priority, start_date, end_date)
              ELSE PopClosed([m EXCEPT !.stack = Pop(m.stack)], priority, start_date, end_date)

\* api.py 224: the top entry is not continued by the open edge ev
StartsNew(last, ev) ==
    last.null \/ last.summary # ev.type \/ (last.hasEnd /\ last.end < ev.at)

\* api.py 223-241: the open edge once no higher layer is in the way
OpenAt(m, ev, start_date, end_date) ==
    LET stack == m.stack
        last == IF Len(stack) > 0 THEN stack[Len(stack)] ELSE Null
    IN  IF StartsNew(last, ev)
        THEN IF ~last.null
             THEN LET s == Max(m.now, last.start)
                      res == OutageEvent(last.summary, s, IF last.hasEnd THEN last.end ELSE ev.at)
                      out == IF last.summary # "none" /\ (~last.hasEnd \/ last.end > m.now)
                             THEN Yield(m.out, res, start_date)
                             ELSE m.out
                  IN  IF ev.at > end_date
                      THEN Loc(stack, ev.at, out, TRUE, FALSE)
                      ELSE Loc(Place(stack, ev.priority, Open(ev.type, ev.at)), ev.at, out, FALSE, FALSE)
             ELSE [m EXCEPT !.stack = Place(stack, ev.priority, Open(ev.type, ev.at))]
        ELSE IF ~last.hasEnd
             THEN [m EXCEPT !.err = TRUE]   \* del new_last['end']: KeyError
             ELSE [m EXCEPT !.stack = Place(stack, ev.priority, [last EXCEPT !.hasEnd = FALSE, !.end = 0])]

\* api.py 202-241
ProcessOpen(m, ev, start_date, end_date) ==
    LET m2 == PopClosed(m, ev.priority, start_date, end_date)
    IN  IF m2.ret THEN m2
        ELSE IF ev.priority < Len(m2.stack) THEN m2
        ELSE OpenAt(m2, ev, start_date, end_date)

\* api.py 243-245
ProcessClose(m, ev) ==
    IF ev.priority <= Len(m.stack) /\ ~m.stack[ev.priority].null
    THEN [m EXCEPT !.stack[ev.priority].end = ev.at, !.stack[ev.priority].hasEnd = TRUE]
    ELSE m

\* api.py 198-245: one iteration of the for loop
ProcessEdge(m, ev, start_date, end_date) ==
    LET m1 == IF m.now = NoneT THEN [m EXCEPT !.now = ev.at] ELSE m
    IN  IF ev.action = "open" THEN ProcessOpen(m1, ev, start_date, end_date)
        ELSE ProcessClose(m1, ev)

\* api.py 247-258: the loop after the sources are exhausted
RECURSIVE Drain(_, _, _)
Drain(m, start_date, end_date) ==
    IF Len(m.stack) = 0 THEN m
    ELSE LET last == m.stack[Len(m.stack)] IN
         IF last.null THEN Drain([m EXCEPT !.stack = Pop(m.stack)], start_date, end_date)
         ELSE IF ~last.hasEnd THEN [m EXCEPT !.stack = Pop(m.stack), !.err = TRUE]   \* last["end"]: KeyError
         ELSE IF last.end > m.now
              THEN LET out == IF last.summary # "none"
                              THEN Yield(m.out, OutageEvent(last.summary, m.now, last.end), start_date)
                              ELSE m.out
                       m2 == Loc(Pop(m.stack), last.end, out, last.end > end_date, FALSE)
                   IN  IF m2.ret THEN m2 ELSE Drain(m2, start_date, end_date)
              ELSE Drain([m EXCEPT !.stack = Pop(m.stack)], start_date, end_date)

\* ------------------------------------------------------------ one evaluation
\* A call of get_events or get_current_event in flight: its arguments, the
\* data the two generators captured (gs = group_schedule, ce = the exception
\* data), their positions (w, and xi = the number of exception edges already
\* taken), and the running values m.
Call(pc, mode, start_date, end_date, at, gs, ce, w, xi, m, result, exc) ==
    [pc |-> pc, mode |-> mode, start_date |-> start_date, end_date |-> end_date,
     at |-> at, gs |-> gs, ce |-> ce, w |-> w, xi |-> xi, m |-> m,
     result |-> result, exc |-> exc]

Idle == Call("idle", "", 0, 0, 0, <<>>, DailyNone, WStop, 0, Loc(<<>>, NoneT, <<>>, FALSE, FALSE), <<>>, "")

\* the edges of the exception generator of call c, in the order it yields them
XEdges(c) == gen_exception_events(c.ce, c.start_date)

\* gen_events with its stack kept on the object, shared by the frames, in
\* place of the local `stack = []`
StartCall_SharedStack(mode, sched, daily, start_date, end_date, at) ==
    LET gs == get_group_schedule(sched)
    IN  Call("run", mode, start_date, end_date, at, gs, daily,
             gen_schedule_recurrent_events(gs, start_date), 0,
             Loc(other.m.stack, NoneT, <<>>, FALSE, FALSE), <<>>, "")

\* api.py 190-197: the locals of a new frame; heapq.merge starts both generators
StartCall(mode, sched, daily, start_date, end_date, at) ==
    LET gs == get_group_schedule(sched)
    IN  Call("run", mode, start_date, end_date, at, gs, daily,
             gen_schedule_recurrent_events(gs, start_date), 0,
             Loc(<<>>, NoneT, <<>>, FALSE, FALSE), <<>>, "")

HasW(c) == c.w.st = "y"
HasX(c) == c.xi < Len(XEdges(c))
\* the exception generator was resumed after its last edge and raised
XRaised(c) == c.xi = Len(XEdges(c)) /\ gen_exception_raises(c.ce) # ""
FromWeekly(c) ==
    TakeWeekly(HasW(c), IF HasW(c) THEN HeadW(c.gs, c.w) ELSE Edge(0, 1, "open", ""),
               HasX(c), IF HasX(c) THEN XEdges(c)[c.xi + 1] ELSE Edge(0, 1, "open", ""))
NextEdge(c) == IF FromWeekly(c) THEN HeadW(c.gs, c.w) ELSE XEdges(c)[c.xi + 1]

\* api.py 110-115: the events of out that get_current_event returns on
Matching(out, at) == SelectSeq(out, LAMBDA e : e.start <= at /\ at < e.end)

\* What the caller makes of the generator after a step that left the running
\* values m; finished = the generator returned.
Deliver(c, m, finished) ==
    IF c.mode = "current"
    THEN LET hit == Matching(m.out, c.at) IN
         IF hit # <<>> THEN [c EXCEPT !.pc = "done", !.m = m, !.result = <<Head(hit)>>]
         ELSE IF m.err THEN [c EXCEPT !.pc = "raised", !.m = m, !.exc = "KeyError"]
         ELSE IF finished THEN [c EXCEPT !.pc = "done", !.m = m, !.result = <<>>]
         ELSE [c EXCEPT !.m = [m EXCEPT !.out = <<>>]]
    ELSE IF m.err THEN [c EXCEPT !.pc = "raised", !.m = m, !.exc = "KeyError"]
         ELSE IF finished THEN [c EXCEPT !.pc = "done", !.m = m, !.result = m.out]
         ELSE [c EXCEPT !.m = m]

\* the merge hands over its smallest edge and resumes that generator
StepEdge(c) ==
    LET ev == NextEdge(c)
        m == ProcessEdge(c.m, ev, c.start_date, c.end_date)
        c2 == IF FromWeekly(c) THEN [c EXCEPT !.w = AdvanceW(c.gs, c.w)]
                               ELSE [c EXCEPT !.xi = c.xi + 1]
    IN  Deliver(c2, m, m.ret)

StepDrain(c) == Deliver(c, Drain(c.m, c.start_date, c.end_date), TRUE)

StepOverflow(c) == [c EXCEPT !.pc = "raised", !.exc = "OverflowError"]

StepRaise(c) == [c EXCEPT !.pc = "raised", !.exc = gen_exception_raises(c.ce)]

\* heapq.merge resumes one generator per edge, the weekly one first at the
\* start; what a generator raises passes through gen_events to the caller
CanOverflow(c) == c.pc = "run" /\ c.w.st = "over"
CanRaise(c) == c.pc = "run" /\ c.w.st # "over" /\ XRaised(c)
CanEdge(c) == c.pc = "run" /\ c.w.st # "over" /\ ~XRaised(c) /\ (HasW(c) \/ HasX(c))
CanDrain(c) == c.pc = "run" /\ c.w.st = "stop" /\ ~XRaised(c) /\ ~HasX(c)

RECURSIVE Run(_)
Run(c) ==
    IF CanEdge(c) THEN Run(StepEdge(c))
    ELSE IF CanDrain(c) THEN StepDrain(c)
    ELSE IF CanOverflow(c) THEN StepOverflow(c)
    ELSE IF CanRaise(c) THEN StepRaise(c)
    ELSE c

\* api.py 260-266 and 110-115 as functions of the stored data
get_events(sched, daily, start_date, end_date) ==
    Run(StartCall("events", sched, daily, start_date, end_date, start_date))

get_current_event(sched, daily, at) ==
    Run(StartCall("current", sched, daily, at, at + DayHours, at))

\* ------------------------------------------------------------ PlannedOutagesApi data
\* Times of the planned-outages client are whole minutes: a slot holds
\* minutes from midnight, an instant is minutes since 00:00 of day 0.
HourMinutes == 60
DayMinutes == 24 * HourMinutes

\* api/models.py 8-12
EventTypes == {"Definite", "NotPlanned"}

\* a slot dict of the response: has = the keys it holds
RawSlot(start, end, type) ==
    [has |-> {"start", "end", "type"}, start |-> start, end |-> end, type |-> type]
RawSlotWithout(key, start, end, type) ==
    [has |-> {"start", "end", "type"} \ {key}, start |-> start, end |-> end, type |-> type]

\* api/models.py 32-38
OutageSlot(start, end, event_type) == [start |-> start, end |-> end, event_type |-> event_type]

\* api/models.py 22-29
PlannedEvent(event_type, start, end, source) ==
    [event_type |-> event_type, start |-> start, end |-> end, source |-> source]

\* group_data[day_key]: key = the day is in group_data, hasDate = it has a
\* "date", date = the day that date names
DayData(date, slots) == [key |-> TRUE, hasDate |-> TRUE, date |-> date, slots |-> slots]
DayAbsent == [key |-> FALSE, hasDate |-> FALSE, date |-> 0, slots |-> <<>>]
DayUndated(slots) == [key |-> TRUE, hasDate |-> FALSE, date |-> 0, slots |-> slots]

\* self.planned_outages_data: None, data without self.group, or data with
\* the group's two days
PlannedNone == [kind |-> "None", today |-> DayAbsent, tomorrow |-> DayAbsent]
PlannedNoGroup == [kind |-> "NoGroup", today |-> DayAbsent, tomorrow |-> DayAbsent]
PlannedOf(today, tomorrow) == [kind |-> "Data", today |-> today, tomorrow |-> tomorrow]

NoAnswer == [op |-> "", start |-> 0, end |-> 0, type |-> "", days |-> 0, exc |-> "", events |-> <<>>]

\* ------------------------------------------------------------ the program
vars == <<schedule, daily_schedule, call, other, fetch, planned_outages_data, answer,
          outages, merged, group_hours, ranges, probable_outages_data, listed,
          _last_fetch, _cached_data, self_data, clock, flight, served, coordinator, update>>

\* the two pure functions, not called
NotCalled == [called |-> FALSE, value |-> <<>>]
Result(value) == [called |-> TRUE, value |-> value]
NoHours == <<>>

\* self.probable_outages_data: None, data without self.group, or the
\* group's "slots": a list of slot dicts for each weekday "0".."6"
ProbableNone == [kind |-> "None", slots |-> [weekday \in 0..(WeekDays - 1) |-> <<>>]]
ProbableNoGroup == [kind |-> "NoGroup", slots |-> [weekday \in 0..(WeekDays - 1) |-> <<>>]]
ProbableOf(slots) == [kind |-> "Data", slots |-> slots]
NotListed == [called |-> FALSE, start |-> 0, end |-> 0, exc |-> "", events |-> <<>>]

\* the DtekAPI objects
Instances == {1, 2}
\* None, as a time and as data
NoFetchTime == -1
NoData == "None"
\* no fetch_data call of the object waits
NoFlight == [pc |-> "idle", now |-> 0]
NotServed == [self |-> 0, now |-> 0, cache_minutes |-> 0, request |-> FALSE]

dtek == <<_last_fetch, _cached_data, self_data, clock, flight, served>>
DtekIdle ==
    /\ _last_fetch = NoFetchTime
    /\ _cached_data = NoData
    /\ self_data = [self \in Instances |-> NoData]
    /\ clock = 0
    /\ flight = [self \in Instances |-> NoFlight]
    /\ served = NotServed

\* None, as an id
NoId == 0
\* api/__init__.py 14-23 with api/base.py 33-43 and the __init__ of the two
\* clients: a YasnoApi object with no regions and no outages data
YasnoApi(region_id, provider_id) ==
    [region_id |-> region_id, provider_id |-> provider_id, regions_data |-> <<>>,
     planned_outages_data |-> NoData, probable_outages_data |-> NoData]
\* coordinator.py 108-116, 157-163: the names of the config entry, no ids,
\* the api object handed in
NewCoordinator(region, provider) ==
    [region |-> region, provider |-> provider, region_id |-> NoId, provider_id |-> NoId,
     api |-> YasnoApi(NoId, NoId)]
\* no update has run
NoUpdate ==
    [pc |-> "idle", outcome |-> "", failed |-> "", resolved |-> FALSE, unset |-> FALSE,
     planned |-> FALSE]

coordination == <<coordinator, update>>
CoordinatorIdle == coordinator = NewCoordinator("Kyiv", "DTEK") /\ update = NoUpdate

\* the objects beside the YasnoOutagesApi and PlannedOutagesApi objects
elsewhere == <<probable_outages_data, listed, dtek, coordination>>
ElsewhereIdle ==
    probable_outages_data = ProbableNone /\ listed = NotListed /\ DtekIdle /\ CoordinatorIdle

functions == <<outages, merged, group_hours, ranges, elsewhere>>
FunctionsIdle ==
    outages = <<>> /\ merged = NotCalled /\ group_hours = NoHours /\ ranges = NotCalled /\ ElsewhereIdle

\* what the YasnoOutagesApi object with one query at a time leaves alone
outside == <<other, fetch, planned_outages_data, answer, functions>>

\* no fetch_schedule call in flight
NoFetch == [pc |-> "idle", sched |-> ScheduleNone, daily |-> DailyNone]

Init ==
    /\ schedule = ScheduleNone
    /\ daily_schedule = DailyNone
    /\ call = Idle
    /\ other = Idle
    /\ fetch = NoFetch
    /\ planned_outages_data = PlannedNone
    /\ answer = NoAnswer
    /\ FunctionsIdle

\* api.py 72-77 with 33-58: a response; each component may be missing
\* (kind "None"), and then the field keeps its value
ScheduleComponents == { ScheduleOf(days) : days \in Tables } \cup { ScheduleNone }
DailyComponents == { DailyOf(recs) : recs \in ExceptionSets } \cup { DailyNoCity, DailyNone }

FetchOk ==
    /\ call.pc = "idle"
    /\ \E sc \in ScheduleComponents, dc \in DailyComponents :
          /\ schedule' = IF sc.kind = "None" THEN schedule ELSE sc
          /\ daily_schedule' = IF dc.kind = "None" THEN daily_schedule ELSE dc
    /\ UNCHANGED call
    /\ UNCHANGED outside

\* api.py 78-80: requests.RequestException
FetchFail ==
    /\ call.pc = "idle"
    /\ schedule' = ScheduleEmpty
    /\ UNCHANGED <<daily_schedule, call>>
    /\ UNCHANGED outside

GetEvents ==
    /\ call.pc = "idle"
    /\ \E start_date \in QueryStarts, end_date \in QueryEnds :
          /\ start_date < end_date
          /\ call' = StartCall("events", schedule, daily_schedule, start_date, end_date, start_date)
    /\ UNCHANGED <<schedule, daily_schedule>>
    /\ UNCHANGED outside

GetCurrentEvent ==
    /\ call.pc = "idle"
    /\ \E at \in QueryAts :
          call' = StartCall("current", schedule, daily_schedule, at, at + DayHours, at)
    /\ UNCHANGED <<schedule, daily_schedule>>
    /\ UNCHANGED outside

NextEdgeStep ==
    /\ CanEdge(call)
    /\ call' = StepEdge(call)
    /\ UNCHANGED <<schedule, daily_schedule>>
    /\ UNCHANGED outside

DrainStep ==
    /\ CanDrain(call)
    /\ call' = StepDrain(call)
    /\ UNCHANGED <<schedule, daily_schedule>>
    /\ UNCHANGED outside

OverflowStep ==
    /\ CanOverflow(call)
    /\ call' = StepOverflow(call)
    /\ UNCHANGED <<schedule, daily_schedule>>
    /\ UNCHANGED outside

\* gen_exception_events raised KeyError or ValueError
RaiseStep ==
    /\ CanRaise(call)
    /\ call' = StepRaise(call)
    /\ UNCHANGED <<schedule, daily_schedule>>
    /\ UNCHANGED outside

\* the caller takes the result (or the exception) and the call is over
Return ==
    /\ call.pc \in {"done", "raised"}
    /\ call' = Idle
    /\ UNCHANGED <<schedule, daily_schedule>>
    /\ UNCHANGED outside

Next ==
    \/ FetchOk
    \/ FetchFail
    \/ GetEvents
    \/ GetCurrentEvent
    \/ NextEdgeStep
    \/ DrainStep
    \/ OverflowStep
    \/ RaiseStep
    \/ Return

Spec == Init /\ [][Next]_vars

\* ------------------------------------------------------------ the resolved timeline
\* What the schedule data says about an instant t, independently of the
\* engine: on an exception day the day's override slots, else the weekly
\* slots of t's weekday.
DayOf(t) == t \div DayHours
HourOf(t) == t % DayHours

SlotLabelsAt(slots, t) ==
    { slots[i].type : i \in { j \in DOMAIN slots : slots[j].start <= HourOf(t) /\ HourOf(t) < slots[j].end } }

ExceptionDates(ce) == { ce.recs[i].date : i \in { j \in DOMAIN ce.recs : ce.recs[j].title = "date" } }
IsExceptionDay(ce, d) == ce.kind = "Data" /\ d \in ExceptionDates(ce)

OverrideLabels(ce, t) ==
    UNION { SlotLabelsAt(ce.recs[i].slots, t) : i \in { j \in DOMAIN ce.recs : ce.recs[j].title = "date" /\ ce.recs[j].date = DayOf(t) } }

WeeklyLabels(gs, t) ==
    IF gs = <<>> THEN {} ELSE SlotLabelsAt(gs[Weekday(t) + 1], t)

ResolvedLabels(gs, ce, t) ==
    IF IsExceptionDay(ce, DayOf(t)) THEN OverrideLabels(ce, t) ELSE WeeklyLabels(gs, t)

Covering(result, t) ==
    { result[i] : i \in { j \in DOMAIN result : result[j].start <= t /\ t < result[j].end } }

Returned(mode) == call.pc = "done" /\ call.mode = mode

\* the instants of the query window [start_date, end_date)
Window == call.start_date .. (call.end_date - 1)

\* ------------------------------------------------------------ claims

\* C1: at every instant t of [start, end) the list returned by get_events
\* has an event covering t exactly when the resolved timeline (override
\* slots on an exception day, weekly slots otherwise) has a slot covering
\* t, and the event carries that slot's label.
C1_PriorityAtEveryInstant ==
    Returned("events") =>
        \A t \in Window :
            LET want == ResolvedLabels(call.gs, call.ce, t)
                cov == Covering(call.result, t)
            IN  /\ (cov # {}) <=> (want # {})
                /\ \A e \in cov : e.summary \in want

\* C2: the events returned by get_events are in chronological order and
\* pairwise disjoint: each starts no earlier than the previous one ends.
C2_SortedDisjoint ==
    Returned("events") =>
        \A i \in 1 .. (Len(call.result) - 1) : call.result[i + 1].start >= call.result[i].end

\* C3: inside the span of an exception day get_events returns nothing over
\* an instant that no override slot of that day covers, every event there
\* carries an override slot's label, and no event is labelled "none".
C3_OverridePrecedence ==
    Returned("events") =>
        /\ \A i \in DOMAIN call.result : call.result[i].summary # "none"
        /\ \A t \in Window :
              IsExceptionDay(call.ce, DayOf(t)) =>
                  \A e \in Covering(call.result, t) : e.summary \in OverrideLabels(call.ce, t)

\* C4: every event returned by get_events(start, end) lies inside
\* [start, end]: its start is not before start, its end not after end.
C4_ClippedToWindow ==
    Returned("events") =>
        \A i \in DOMAIN call.result :
            /\ call.result[i].start >= call.start_date
            /\ call.result[i].end <= call.end_date

\* C5: get_events(start, end) returns only intervals that intersect
\* [start, end): none ends at or before start, none begins at or after end.
C5_IntersectsWindow ==
    Returned("events") =>
        \A i \in DOMAIN call.result :
            /\ call.result[i].end > call.start_date
            /\ call.result[i].start < call.end_date

\* C6: get_current_event(T) returns an event containing T whenever the
\* resolved timeline has an outage at T, and None when T lies in a gap.
C6_CurrentEvent ==
    Returned("current") =>
        IF ResolvedLabels(call.gs, call.ce, call.at) # {}
        THEN /\ call.result # <<>>
             /\ call.result[1].start <= call.at
             /\ call.at < call.result[1].end
        ELSE call.result = <<>>

NoSlots(gs, ce) ==
    /\ \A i \in DOMAIN gs : gs[i] = <<>>
    /\ \A i \in DOMAIN ce.recs : ce.recs[i].slots = <<>>

\* C7: every evaluation of get_events and get_current_event ends by
\* returning (it never runs on until the date arithmetic gives out), and
\* when neither source has a slot get_events returns the empty list.
C7_Terminates ==
    /\ ~(call.pc = "raised" /\ call.exc = "OverflowError")
    /\ (Returned("events") /\ NoSlots(call.gs, call.ce)) => call.result = <<>>

\* the exception set has exactly one record for day d, and its only
\* override slot is the whole day
WholeDayOverride(ce, d) ==
    /\ ce.kind = "Data"
    /\ Cardinality({ i \in DOMAIN ce.recs : ce.recs[i].date = d }) = 1
    /\ \A i \in DOMAIN ce.recs :
          ce.recs[i].date = d =>
              /\ Len(ce.recs[i].slots) = 1
              /\ ce.recs[i].slots[1].start = START_OF_DAY
              /\ ce.recs[i].slots[1].end = END_OF_DAY

OverrideLabelOf(ce, d) ==
    (CHOOSE r \in { ce.recs[i] : i \in DOMAIN ce.recs } : r.date = d).slots[1].type

\* C8: a whole-day override on day D makes get_events(D 00:00, D+1 00:00)
\* return exactly one event, the override from D 00:00 to D+1 00:00 (the
\* scenario: Monday 09:00-10:00 "outage" weekly, Monday 00:00-24:00
\* "maintenance" override).
C8_WholeDayOverride ==
    (/\ Returned("events")
     /\ HourOf(call.start_date) = 0
     /\ call.end_date = call.start_date + DayHours
     /\ WholeDayOverride(call.ce, DayOf(call.start_date)))
    => call.result = << OutageEvent(OverrideLabelOf(call.ce, DayOf(call.start_date)),
                                    call.start_date, call.end_date) >>

\* the labels L for which the Sunday list has a slot ending at 24:00 and the
\* Monday list a slot starting at 00:00, both labelled L
RolloverLabels(gs) ==
    IF gs = <<>> THEN {}
    ELSE { gs[WeekDays][i].type : i \in { j \in DOMAIN gs[WeekDays] :
               /\ gs[WeekDays][j].end = END_OF_DAY
               /\ \E k \in DOMAIN gs[1] :
                     /\ gs[1][k].start = START_OF_DAY
                     /\ gs[1][k].type = gs[WeekDays][j].type } }

\* a Monday 00:00 strictly inside the query window whose Sunday and Monday
\* are both ordinary days
RolloverAt(W) ==
    /\ W \in Window
    /\ W > call.start_date
    /\ W % (DayHours * WeekDays) = 0
    /\ ~IsExceptionDay(call.ce, DayOf(W) - 1)
    /\ ~IsExceptionDay(call.ce, DayOf(W))

\* C9: a weekly slot ending at Sunday 24:00 followed by a weekly slot with
\* the same label starting at Monday 00:00 is returned by get_events as one
\* interval running through the week boundary: one event with that label
\* contains the boundary in its interior, and no event starts or ends on it.
C9_WeekRollover ==
    Returned("events") =>
        \A W \in Window :
            (RolloverAt(W) /\ RolloverLabels(call.gs) # {}) =>
                /\ \A L \in RolloverLabels(call.gs) :
                      \E i \in DOMAIN call.result :
                          /\ call.result[i].summary = L
                          /\ call.result[i].start < W
                          /\ W < call.result[i].end
                /\ \A i \in DOMAIN call.result :
                      call.result[i].start # W /\ call.result[i].end # W

QueryTimes == QueryStarts \cup QueryEnds

Front(seq) == SubSeq(seq, 1, Len(seq) - 1)

\* r1 followed by r2 equals r3, or does so once the last event of r1 and the
\* first of r2, which meet at B with the same label, are joined into one
SameModuloSplit(r1, r2, r3, B) ==
    \/ r1 \o r2 = r3
    \/ /\ r1 # <<>>
       /\ r2 # <<>>
       /\ r1[Len(r1)].end = B
       /\ r2[1].start = B
       /\ r1[Len(r1)].summary = r2[1].summary
       /\ Front(r1) \o << OutageEvent(r2[1].summary, r1[Len(r1)].start, r2[1].end) >> \o Tail(r2) = r3

\* C10: for all A < B < C and unchanged data, get_events(A, B) followed by
\* get_events(B, C) equals get_events(A, C), except that one interval
\* crossing B may appear as two pieces meeting at B with the same label.
C10_Concatenation ==
    call.pc = "idle" =>
        \A A \in QueryTimes, B \in QueryTimes, C \in QueryTimes :
            (A < B /\ B < C) =>
                LET c1 == get_events(schedule, daily_schedule, A, B)
                    c2 == get_events(schedule, daily_schedule, B, C)
                    c3 == get_events(schedule, daily_schedule, A, C)
                IN  (c1.pc = "done" /\ c2.pc = "done" /\ c3.pc = "done") =>
                        SameModuloSplit(c1.result, c2.result, c3.result, B)

\* ------------------------------------------------------------ two generators in flight
\* gen_events is a generator function: every call makes a frame of its own
\* (stack, now, the two source generators), and a caller may hold two frames
\* and consume them in turn. `other` is a second frame on the same object.
PairTables ==
    { WeekOf(<<O(0, 12)>>, <<O(0, 12), M(12, 24)>>, <<O(0, 24)>>),
      WeekOf(<<O(9, 10)>>, <<>>, <<>>),
      WeekOf(<<>>, <<>>, <<>>) }

PairExceptions == { <<>>, <<ExDay(7, <<M(0, 24)>>)>>, <<ExDay(6, <<O(12, 24)>>)>>, <<ExNoGroup(6)>> }

OtherStarts == {144, 168}
OtherEnds == {192}
OtherAts == {180}

InitTwo ==
    /\ schedule \in { ScheduleOf(days) : days \in PairTables } \cup { ScheduleNone }
    /\ daily_schedule \in { DailyOf(recs) : recs \in PairExceptions } \cup { DailyNone }
    /\ call = Idle
    /\ other = Idle
    /\ fetch = NoFetch
    /\ planned_outages_data = PlannedNone
    /\ answer = NoAnswer
    /\ FunctionsIdle

OtherGetEvents ==
    /\ other.pc = "idle"
    /\ \E start_date \in OtherStarts, end_date \in OtherEnds :
          other' = StartCall("events", schedule, daily_schedule, start_date, end_date, start_date)
    /\ UNCHANGED <<schedule, daily_schedule, call, fetch, planned_outages_data, answer, functions>>

OtherGetCurrentEvent ==
    /\ other.pc = "idle"
    /\ \E at \in OtherAts :
          other' = StartCall("current", schedule, daily_schedule, at, at + DayHours, at)
    /\ UNCHANGED <<schedule, daily_schedule, call, fetch, planned_outages_data, answer, functions>>

\* next(...) on the second frame: one more edge, the drain, or what a source raises
OtherStep ==
    /\ other.pc = "run"
    /\ other' = IF CanEdge(other) THEN StepEdge(other)
                ELSE IF CanDrain(other) THEN StepDrain(other)
                ELSE IF CanOverflow(other) THEN StepOverflow(other)
                ELSE StepRaise(other)
    /\ UNCHANGED <<schedule, daily_schedule, call, fetch, planned_outages_data, answer, functions>>

OtherReturn ==
    /\ other.pc \in {"done", "raised"}
    /\ other' = Idle
    /\ UNCHANGED <<schedule, daily_schedule, call, fetch, planned_outages_data, answer, functions>>

NextTwo ==
    \/ GetEvents
    \/ GetCurrentEvent
    \/ NextEdgeStep
    \/ DrainStep
    \/ OverflowStep
    \/ RaiseStep
    \/ Return
    \/ OtherGetEvents
    \/ OtherGetCurrentEvent
    \/ OtherStep
    \/ OtherReturn

SpecTwo == InitTwo /\ [][NextTwo]_vars

\* what the query of frame c gives when it is evaluated alone on the stored data
Alone(c) ==
    IF c.mode = "events"
    THEN get_events(schedule, daily_schedule, c.start_date, c.end_date)
    ELSE get_current_event(schedule, daily_schedule, c.at)

SameOutcome(c, d) == c.pc = d.pc /\ c.result = d.result /\ c.exc = d.exc

Finished(c) == c.pc \in {"done", "raised"}

\* C11: queries leave no residual state. Whatever was evaluated before a
\* query, and whatever other query is consumed in turn with it, the query
\* ends as it does when evaluated alone on the stored data, and no step of
\* a query changes the stored weekly table or exception set.
C11_NoResidualState ==
    [][ /\ schedule' = schedule
        /\ daily_schedule' = daily_schedule
        /\ Finished(call') => SameOutcome(call', Alone(call'))
        /\ Finished(other') => SameOutcome(other', Alone(other')) ]_vars

\* a query returned events while a second one, started before it ended, is
\* in the middle of its edges
C11_Witness ==
    /\ call.pc = "done" /\ call.result # <<>>
    /\ other.pc = "run" /\ other.m.stack # <<>> /\ other.m.out # <<>>

\* ------------------------------------------------------------ missing entries
\* the exception data has no entry for the city, or a dated record of it has
\* no slot list for the group
MissingEntry(ce) ==
    \/ ce.kind = "NoCity"
    \/ ce.kind = "Data" /\ \E i \in DOMAIN ce.recs : ce.recs[i].title = "date" /\ ~ce.recs[i].group

\* the exception data that remains: without the records that miss the
\* group, or with those records taken as days without override slots
WithoutMissing(ce) ==
    IF ce.kind = "NoCity" THEN DailyOf(<<>>)
    ELSE DailyOf(SelectSeq(ce.recs, LAMBDA r : r.group))

RECURSIVE BlankMissing(_)
BlankMissing(recs) ==
    IF recs = <<>> THEN <<>>
    ELSE << IF Head(recs).group THEN Head(recs) ELSE [Head(recs) EXCEPT !.group = TRUE, !.slots = <<>>] >>
         \o BlankMissing(Tail(recs))

WithMissingBlank(ce) ==
    IF ce.kind = "NoCity" THEN DailyOf(<<>>) ELSE DailyOf(BlankMissing(ce.recs))

\* the query of frame c evaluated on the exception data ce instead of its own
Requery(c, ce) ==
    Run([c EXCEPT !.pc = "run", !.ce = ce, !.xi = 0,
                  !.w = gen_schedule_recurrent_events(c.gs, c.start_date),
                  !.m = Loc(<<>>, NoneT, <<>>, FALSE, FALSE), !.result = <<>>, !.exc = ""])

\* C12: when the exception data has no entry for the city, or a record has
\* no slot list for the group, get_events and get_current_event do not
\* raise: they return what the remaining data gives. (A weekly table that
\* makes the date arithmetic overflow is the matter of C7 and is left out.)
C12_MissingEntryNoRaise ==
    (Finished(call) /\ MissingEntry(call.ce) /\ call.exc # "OverflowError") =>
        /\ call.pc = "done"
        /\ \E ce \in { WithoutMissing(call.ce), WithMissingBlank(call.ce) } :
              SameOutcome(call, Requery(call, ce))

\* ------------------------------------------------------------ undated records
\* a record of the exception data has a title without a date, or with a
\* D.M.Y text that is no calendar date
Undated(ce) ==
    ce.kind = "Data" /\ \E i \in DOMAIN ce.recs : ce.recs[i].title # "date"

WithoutUndated(ce) == DailyOf(SelectSeq(ce.recs, LAMBDA r : r.title = "date"))

\* C13: an exception record whose title holds no date, or a D.M.Y text
\* that is no calendar date, is skipped: gen_exception_events yields the
\* edges of the other records, in their order, and raises nothing on
\* account of the record, so the query that consumed it did not end with
\* the ValueError of the date. (A weekly table that makes the date
\* arithmetic overflow is the matter of C7 and is left out.)
C13_UndatedSkipped ==
    (Finished(call) /\ Undated(call.ce) /\ call.exc # "OverflowError") =>
        /\ gen_exception_events(call.ce, call.start_date)
              = gen_exception_events(WithoutUndated(call.ce), call.start_date)
        /\ gen_exception_raises(call.ce) = gen_exception_raises(WithoutUndated(call.ce))
        /\ call.exc # "ValueError"

\* ------------------------------------------------------------ fetches
\* C14: a failed fetch leaves the stored data as the last successful fetch
\* left it: the step of fetch_schedule that ends in the except branch
\* changes neither the weekly table nor the exception set.
C14_FailedFetchKeepsData ==
    [][FetchFail => (schedule' = schedule /\ daily_schedule' = daily_schedule)]_vars

\* ------------------------------------------------------------ a fetch beside the queries
\* fetch_schedule blocks in requests.get, so it runs on a worker thread
\* while the queries run on the caller's thread: the two assignments of
\* _extract_data_from_api_response are two steps, and a query may start
\* between them. A response carries both components of one version of the
\* published schedule.
Versions ==
    { [sched |-> ScheduleOf(WeekOf(<<O(9, 10)>>, <<>>, <<>>)),
       daily |-> DailyOf(<<ExDay(7, <<M(0, 24)>>)>>)],
      [sched |-> ScheduleOf(WeekOf(<<O(0, 12)>>, <<O(0, 24)>>, <<>>)),
       daily |-> DailyOf(<<ExDay(8, <<O(12, 24)>>)>>)] }

\* api.py 75-77: the response arrived and was decoded
Respond ==
    /\ fetch.pc = "idle"
    /\ \E v \in Versions : fetch' = [pc |-> "got", sched |-> v.sched, daily |-> v.daily]
    /\ UNCHANGED <<schedule, daily_schedule, call, other, planned_outages_data, answer, functions>>

\* api.py 51-52
AssignSchedule ==
    /\ fetch.pc = "got"
    /\ schedule' = fetch.sched
    /\ fetch' = [fetch EXCEPT !.pc = "half"]
    /\ UNCHANGED <<daily_schedule, call, other, planned_outages_data, answer, functions>>

\* api.py 55-56
AssignDaily ==
    /\ fetch.pc = "half"
    /\ daily_schedule' = fetch.daily
    /\ fetch' = NoFetch
    /\ UNCHANGED <<schedule, call, other, planned_outages_data, answer, functions>>

NextRefresh ==
    \/ Respond
    \/ AssignSchedule
    \/ AssignDaily
    \/ GetEvents
    \/ GetCurrentEvent
    \/ NextEdgeStep
    \/ DrainStep
    \/ Return

SpecRefresh == Init /\ [][NextRefresh]_vars

\* the pair of weekly table and exception set that frame c reads
Observed(c) == [gs |-> c.gs, ce |-> c.ce]

CompletePairs ==
    { [gs |-> get_group_schedule(v.sched), ce |-> v.daily] : v \in Versions }
    \cup { [gs |-> get_group_schedule(ScheduleNone), ce |-> DailyNone] }

\* C15: a successful fetch replaces the weekly table and the exception set
\* together: a query beside a fetch reads the pair of one version (or the
\* pair from before the first fetch), never the table of one version with
\* the exception set of another, and the pair it reads stays the same
\* until it returns.
C15_AtomicReplace ==
    [][ /\ call'.pc # "idle" => Observed(call') \in CompletePairs
        /\ (call.pc # "idle" /\ call'.pc # "idle") => Observed(call') = Observed(call) ]_vars

\* ------------------------------------------------------------ PlannedOutagesApi
\* A call gives [exc, events]: exc = "" and the events it returns (a list,
\* or for an optional event the empty list or the one event), or the
\* exception it raises.
Gives(events) == [exc |-> "", events |-> events]
Raises(exc) == [exc |-> exc, events |-> <<>>]

\* date.replace(hour=..., minute=...) with an hour outside 0..23 raises
\* ValueError
NoTime == -1

\* api/base.py 241-258: a slot is dropped when OutageEventType(slot["type"])
\* or a subscript raises
_parse_raw_slots(slots) ==
    LET Parsed(slot) == {"type", "start", "end"} \subseteq slot.has /\ slot.type \in EventTypes
        kept == SelectSeq(slots, Parsed)
    IN  [i \in 1..Len(kept) |-> OutageSlot(kept[i].start, kept[i].end, kept[i].type)]

\* api/base.py 222-239; date is the day of the datetime
minutes_to_time(minutes, date) ==
    LET hours == minutes \div HourMinutes
        mins == minutes % HourMinutes
    IN  IF hours = 24 THEN (date + 1) * DayMinutes
        ELSE IF hours \in 0..23 THEN date * DayMinutes + hours * HourMinutes + mins
        ELSE NoTime

\* api/base.py 260-282
_parse_slots_to_events(slots, date, source) ==
    LET events == [i \in 1..Len(slots) |->
                      PlannedEvent(slots[i].event_type,
                                   minutes_to_time(slots[i].start, date),
                                   minutes_to_time(slots[i].end, date), source)]
    IN  IF \E i \in 1..Len(slots) : events[i].start = NoTime \/ events[i].end = NoTime
        THEN Raises("ValueError")
        ELSE Gives(events)

\* api/planned.py 90-113
_parse_day_events(day_data) ==
    IF ~day_data.key \/ ~day_data.hasDate THEN Gives(<<>>)
    ELSE _parse_slots_to_events(_parse_raw_slots(day_data.slots), day_data.date, "planned")

\* sorted(events, key=lambda event: event.start): stable
RECURSIVE InsertByStart(_, _)
InsertByStart(sorted, e) ==
    IF sorted = <<>> THEN <<e>>
    ELSE IF Head(sorted).start <= e.start THEN <<Head(sorted)>> \o InsertByStart(Tail(sorted), e)
    ELSE <<e>> \o sorted

RECURSIVE SortByStart(_)
SortByStart(events) ==
    IF events = <<>> THEN <<>>
    ELSE InsertByStart(SortByStart(SubSeq(events, 1, Len(events) - 1)), events[Len(events)])

\* api/planned.py 193-203
Intersects(event, start_date, end_date) ==
    \/ start_date <= event.start /\ event.start <= end_date
    \/ start_date <= event.end /\ event.end <= end_date
    \/ event.start <= start_date /\ start_date <= event.end
    \/ event.start <= end_date /\ end_date <= event.end

\* api/planned.py 172-203
get_events_between(data, start_date, end_date) ==
    IF data.kind # "Data" THEN Gives(<<>>)
    ELSE LET today == _parse_day_events(data.today)
             tomorrow == _parse_day_events(data.tomorrow)
         IN  IF today.exc # "" THEN today
             ELSE IF tomorrow.exc # "" THEN tomorrow
             ELSE LET Inside(event) == Intersects(event, start_date, end_date)
                  IN  Gives(SelectSeq(SortByStart(today.events \o tomorrow.events), Inside))

\* api/planned.py 164-170
Planned_get_current_event(data, at) ==
    LET all_events == get_events_between(data, at, at + DayMinutes)
        Current(event) == event.start <= at /\ at < event.end
        hit == SelectSeq(all_events.events, Current)
    IN  IF all_events.exc # "" THEN all_events
        ELSE IF hit # <<>> THEN Gives(<<Head(hit)>>)
        ELSE Gives(<<>>)

\* get_next_event with `event.start >= at` for `event.start > at`
get_next_event_Inclusive(data, at, event_type, lookahead_days) ==
    LET horizon == at + lookahead_days * DayMinutes
        between == get_events_between(data, at, horizon)
        events == SortByStart(between.events)
        Later(event) == event.event_type = event_type /\ event.start >= at
        hit == SelectSeq(events, Later)
    IN  IF between.exc # "" THEN between
        ELSE IF hit # <<>> THEN Gives(<<Head(hit)>>)
        ELSE Gives(<<>>)

\* api/base.py 201-220
get_next_event(data, at, event_type, lookahead_days) ==
    LET horizon == at + lookahead_days * DayMinutes
        between == get_events_between(data, at, horizon)
        events == SortByStart(between.events)
        Later(event) == event.event_type = event_type /\ event.start > at
        hit == SelectSeq(events, Later)
    IN  IF between.exc # "" THEN between
        ELSE IF hit # <<>> THEN Gives(<<Head(hit)>>)
        ELSE Gives(<<>>)

\* ------------------------------------------------------------ PlannedOutagesApi: the object
D(start, end) == RawSlot(start, end, "Definite")
N(start, end) == RawSlot(start, end, "NotPlanned")

\* slot lists of "today", the last five with a slot that is not valid
TodaySlots ==
    { <<>>,
      <<D(600, 720), N(720, 900)>>,
      <<D(600, 720), D(720, 840)>>,
      <<D(600, 720), D(720, 840), D(900, 960)>>,
      <<D(1200, 1440)>>,
      <<D(600, 720), RawSlot(720, 800, "InvalidType"), D(900, 960)>>,
      <<D(600, 720), RawSlotWithout("end", 720, 0, "Definite"), D(900, 960)>>,
      <<D(600, 720), D(840, 780), D(900, 960)>>,
      <<D(600, 720), D(1500, 1560), D(900, 960)>>,
      <<D(600, 720), D(-60, 0), D(900, 960)>> }

TomorrowSlots == { <<>>, <<D(0, 60)>>, <<N(0, 1440)>>, <<D(480, 600)>> }

Today == 1
Tomorrow == 2

PlannedResponses ==
    { PlannedOf(DayData(Today, t), DayData(Tomorrow, m)) : t \in TodaySlots, m \in TomorrowSlots }
    \cup { PlannedOf(DayData(Today, <<D(1200, 1440)>>), DayAbsent),
           PlannedOf(DayUndated(<<D(600, 720)>>), DayData(Tomorrow, <<D(0, 60)>>)),
           PlannedNoGroup }

PlannedAts ==
    { Today * DayMinutes, Today * DayMinutes + 630, Today * DayMinutes + 720,
      Today * DayMinutes + 1000, Tomorrow * DayMinutes, Tomorrow * DayMinutes + 30 }
PlannedStarts == { Today * DayMinutes, Today * DayMinutes + 720 }
PlannedEnds == { Today * DayMinutes + 720, Tomorrow * DayMinutes, Tomorrow * DayMinutes + DayMinutes }
Lookaheads == {1, 2}

\* what the YasnoOutagesApi model holds
yasno == <<schedule, daily_schedule, call, other, fetch, functions>>

InitPlanned ==
    /\ schedule = ScheduleNone
    /\ daily_schedule = DailyNone
    /\ call = Idle
    /\ other = Idle
    /\ fetch = NoFetch
    /\ planned_outages_data = PlannedNone
    /\ answer = NoAnswer
    /\ FunctionsIdle

\* api/planned.py 36-56 on an object with region and provider set: the
\* response replaces the data
FetchPlannedOk ==
    /\ \E new_data \in PlannedResponses : planned_outages_data' = new_data
    /\ answer' = [NoAnswer EXCEPT !.op = "fetch_planned_outages_data"]
    /\ UNCHANGED yasno

\* api/planned.py 49-54 with api/base.py 62-64: _get_data raises
\* YasnoApiError, or the response is null
FetchPlannedFail ==
    /\ \E exc \in {"YasnoApiError", ""} :
          answer' = [NoAnswer EXCEPT !.op = "fetch_planned_outages_data", !.exc = exc]
    /\ UNCHANGED planned_outages_data
    /\ UNCHANGED yasno

Answer(op, start, end, type, days, given) ==
    [op |-> op, start |-> start, end |-> end, type |-> type, days |-> days,
     exc |-> given.exc, events |-> given.events]

PlannedGetEventsBetween ==
    /\ \E start_date \in PlannedStarts, end_date \in PlannedEnds :
          /\ start_date < end_date
          /\ answer' = Answer("get_events_between", start_date, end_date, "", 0,
                              get_events_between(planned_outages_data, start_date, end_date))
    /\ UNCHANGED planned_outages_data
    /\ UNCHANGED yasno

PlannedGetCurrentEvent ==
    /\ \E at \in PlannedAts :
          answer' = Answer("get_current_event", at, at + DayMinutes, "", 0,
                           Planned_get_current_event(planned_outages_data, at))
    /\ UNCHANGED planned_outages_data
    /\ UNCHANGED yasno

PlannedGetNextEvent ==
    /\ \E at \in PlannedAts, event_type \in EventTypes, lookahead_days \in Lookaheads :
          answer' = Answer("get_next_event", at, at + lookahead_days * DayMinutes, event_type, lookahead_days,
                           get_next_event(planned_outages_data, at, event_type, lookahead_days))
    /\ UNCHANGED planned_outages_data
    /\ UNCHANGED yasno

NextPlanned ==
    \/ FetchPlannedOk
    \/ FetchPlannedFail
    \/ PlannedGetEventsBetween
    \/ PlannedGetCurrentEvent
    \/ PlannedGetNextEvent

SpecPlanned == InitPlanned /\ [][NextPlanned]_vars

\* ------------------------------------------------------------ invalid slots
\* a slot with all its fields, a known type, and 0 <= start < end <= 24:00
ValidSlot(slot) ==
    /\ {"start", "end", "type"} \subseteq slot.has
    /\ slot.type \in EventTypes
    /\ 0 <= slot.start /\ slot.start < slot.end /\ slot.end <= DayMinutes

ValidSlots(slots) ==
    LET kept == SelectSeq(slots, ValidSlot)
    IN  [i \in 1..Len(kept) |-> OutageSlot(kept[i].start, kept[i].end, kept[i].type)]

ValidOnly(day_data) == [day_data EXCEPT !.slots = SelectSeq(day_data.slots, ValidSlot)]

\* C16: a slot with invalid data (start not before end, a time outside the
\* day, a missing field, an unknown type) is rejected on its own: parsing a
\* day's slots keeps exactly its valid slots, in their order, and
\* get_events_between returns what it returns for the data without the
\* invalid slots.
C16_InvalidSlotRejected ==
    (answer.op = "get_events_between" /\ planned_outages_data.kind = "Data") =>
        /\ _parse_raw_slots(planned_outages_data.today.slots) = ValidSlots(planned_outages_data.today.slots)
        /\ _parse_raw_slots(planned_outages_data.tomorrow.slots) = ValidSlots(planned_outages_data.tomorrow.slots)
        /\ answer.exc = ""
        /\ answer.events = get_events_between(PlannedOf(ValidOnly(planned_outages_data.today),
                                                         ValidOnly(planned_outages_data.tomorrow)),
                                              answer.start, answer.end).events

\* ------------------------------------------------------------ the next event
\* what get_events_between gives for the window of the last get_next_event
Between == get_events_between(planned_outages_data, answer.start, answer.end)

\* the events of the requested type that start strictly after `at`
Candidates ==
    { i \in 1..Len(Between.events) :
        /\ Between.events[i].event_type = answer.type
        /\ Between.events[i].start > answer.start }

\* C17: get_next_event(at, event_type, lookahead_days) returns the event with
\* the earliest start among the events of the requested type in
\* get_events_between(at, at + lookahead_days) that start strictly after at,
\* and None when there is none; an event in progress at `at`, or of another
\* type, is never returned.  Where get_events_between raises, so does
\* get_next_event.
C17_NextEvent ==
    answer.op = "get_next_event" =>
        IF Between.exc # "" THEN answer.exc = Between.exc
        ELSE /\ answer.exc = ""
             /\ Candidates = {} => answer.events = <<>>
             /\ Candidates # {} =>
                   /\ Len(answer.events) = 1
                   /\ \E i \in Candidates :
                         /\ answer.events[1] = Between.events[i]
                         /\ \A j \in Candidates : Between.events[i].start <= Between.events[j].start
             /\ \A k \in 1..Len(answer.events) :
                   /\ answer.events[k].event_type = answer.type
                   /\ answer.events[k].start > answer.start

\* an event was returned out of two candidates, past an event of the
\* requested type in progress at `at` and one that starts at `at`
C17_Witness ==
    /\ answer.op = "get_next_event" /\ answer.exc = ""
    /\ Len(answer.events) = 1
    /\ Cardinality(Candidates) >= 2
    /\ \E i \in 1..Len(Between.events) :
          /\ Between.events[i].event_type = answer.type
          /\ Between.events[i].start = answer.start
    /\ \E i \in 1..Len(Between.events) :
          /\ Between.events[i].event_type = answer.type
          /\ Between.events[i].start < answer.start /\ answer.start <= Between.events[i].end

\* ------------------------------------------------------------ the current event
\* the valid slots of a dated day as <<start, end, type>> in minutes of the model's clock
SlotTimes(day_data) ==
    IF day_data.key /\ day_data.hasDate
    THEN { <<day_data.date * DayMinutes + day_data.slots[i].start,
             day_data.date * DayMinutes + day_data.slots[i].end,
             day_data.slots[i].type>> :
              i \in { k \in 1..Len(day_data.slots) : ValidSlot(day_data.slots[k]) } }
    ELSE {}

\* the slots of today and tomorrow that hold the instant `at`: start <= at < end
SlotsAt(at) ==
    IF planned_outages_data.kind # "Data" THEN {}
    ELSE { s \in SlotTimes(planned_outages_data.today) \cup SlotTimes(planned_outages_data.tomorrow) :
              s[1] <= at /\ at < s[2] }

\* C18: PlannedOutagesApi.get_current_event(at) returns an event with
\* start <= at < end when today's or tomorrow's slots contain one, and None
\* otherwise; where one slot ends and the next begins (24:00 of today being
\* 00:00 of tomorrow) the returned event is the later slot.
C18_CurrentEvent ==
    answer.op = "get_current_event" =>
        /\ answer.exc = ""
        /\ SlotsAt(answer.start) = {} => answer.events = <<>>
        /\ SlotsAt(answer.start) # {} =>
              /\ Len(answer.events) = 1
              /\ answer.events[1].start <= answer.start /\ answer.start < answer.events[1].end
              /\ <<answer.events[1].start, answer.events[1].end, answer.events[1].event_type>>
                    \in SlotsAt(answer.start)

\* ------------------------------------------------------------ merge_consecutive_outages
\* helpers.py 20-24: the test that extends current_event by next_event
Mergeable(current_event, next_event) ==
    /\ current_event.end = next_event.start
    /\ current_event.event_type = next_event.event_type
    /\ current_event.source = next_event.source

\* helpers.py 19-34: the loop from events[i] on
RECURSIVE MergeFrom(_, _, _, _)
MergeFrom(events, i, result, current_event) ==
    IF i > Len(events) THEN Append(result, current_event)
    ELSE IF Mergeable(current_event, events[i])
         THEN MergeFrom(events, i + 1, result,
                        PlannedEvent(current_event.event_type, current_event.start,
                                     events[i].end, current_event.source))
         ELSE MergeFrom(events, i + 1, Append(result, current_event), events[i])

\* the loop of merge_consecutive_outages with no comparison of the sources
RECURSIVE MergeFrom_AnySource(_, _, _, _)
MergeFrom_AnySource(events, i, result, current_event) ==
    IF i > Len(events) THEN Append(result, current_event)
    ELSE IF current_event.end = events[i].start /\ current_event.event_type = events[i].event_type
         THEN MergeFrom_AnySource(events, i + 1, result,
                                  PlannedEvent(current_event.event_type, current_event.start,
                                               events[i].end, current_event.source))
         ELSE MergeFrom_AnySource(events, i + 1, Append(result, current_event), events[i])

merge_consecutive_outages_AnySource(events) ==
    IF events = <<>> THEN <<>> ELSE MergeFrom_AnySource(events, 2, <<>>, events[1])

\* helpers.py 8-38
merge_consecutive_outages(events) ==
    IF events = <<>> THEN <<>> ELSE MergeFrom(events, 2, <<>>, events[1])

\* the events a list is drawn from: starts on the hour, one or two hours
\* long, of two types and two sources
MaxEvents == 4
MergeStarts == {0, 60, 120, 180}
MergeLengths == {60, 120}
MergeKinds == { <<"Definite", "planned">>, <<"Definite", "probable">>, <<"NotPlanned", "planned">> }
MergePool ==
    { PlannedEvent(k[1], s, s + d, k[2]) : s \in MergeStarts, d \in MergeLengths, k \in MergeKinds }

SortedByStart(events) == \A i \in 1..(Len(events) - 1) : events[i].start <= events[i + 1].start

\* the lists of n events of the pool that are sorted by start
MergeInputs(n) == { events \in [1..n -> MergePool] : SortedByStart(events) }

InitMerge ==
    /\ schedule = ScheduleNone
    /\ daily_schedule = DailyNone
    /\ call = Idle
    /\ other = Idle
    /\ fetch = NoFetch
    /\ planned_outages_data = PlannedNone
    /\ answer = NoAnswer
    /\ \E n \in 0..MaxEvents : \E events \in [1..n -> MergePool] :
          SortedByStart(events) /\ outages = events
    /\ merged = NotCalled
    /\ group_hours = NoHours
    /\ ranges = NotCalled
    /\ ElsewhereIdle

Merge ==
    /\ merged' = Result(merge_consecutive_outages(outages))
    /\ UNCHANGED <<schedule, daily_schedule, call, other, fetch, planned_outages_data, answer>>
    /\ UNCHANGED <<outages, group_hours, ranges, elsewhere>>

NextMerge == Merge

SpecMerge == InitMerge /\ [][NextMerge]_vars

\* two neighbours touch end-to-start and share type and source
Touches(a, b) == a.end = b.start /\ a.event_type = b.event_type /\ a.source = b.source

\* the first events of the maximal runs of a list, and the last event of the run of h
RunHeads(l) == { i \in 1..Len(l) : i = 1 \/ ~Touches(l[i - 1], l[i]) }
RunLast(l, h) ==
    CHOOSE j \in h..Len(l) :
        /\ \A k \in h..(j - 1) : Touches(l[k], l[k + 1])
        /\ j = Len(l) \/ ~Touches(l[j], l[j + 1])

\* the list with every maximal run replaced by one event
RunsMerged(l) ==
    LET heads == RunHeads(l)
        Nth(k) == CHOOSE h \in heads : Cardinality({ g \in heads : g < h }) = k - 1
    IN  [k \in 1..Cardinality(heads) |->
            PlannedEvent(l[Nth(k)].event_type, l[Nth(k)].start,
                         l[RunLast(l, Nth(k))].end, l[Nth(k)].source)]

\* C19: for a list sorted by start, merge_consecutive_outages returns the
\* input with every maximal run of events that touch end-to-start and share
\* type and source replaced by one event from the run's first start to its
\* last end, the other events unchanged and in order; no two neighbours of
\* the result could still be merged, and merging it again changes nothing.
C19_MergeRuns ==
    merged.called =>
        /\ merged.value = RunsMerged(outages)
        /\ \A i \in 1..(Len(merged.value) - 1) : ~Touches(merged.value[i], merged.value[i + 1])
        /\ merge_consecutive_outages(merged.value) = merged.value

\* a run of three was merged, and the event after it, which touches the run
\* and has its type but another source, was left alone
C19_Witness ==
    /\ merged.called
    /\ Len(outages) = 4 /\ Len(merged.value) = 2
    /\ Touches(outages[1], outages[2]) /\ Touches(outages[2], outages[3])
    /\ outages[3].end = outages[4].start /\ outages[3].event_type = outages[4].event_type
    /\ outages[3].source # outages[4].source
    /\ merged.value[1].start = outages[1].start /\ merged.value[1].end = outages[3].end
    /\ merged.value[2] = outages[4]

\* ------------------------------------------------------------ _parse_group_hours
\* datetime.time(hour, minute, second), in seconds of the day
Time(hour, minute, second) == (hour * HourMinutes + minute) * 60 + second

\* outage_start = None
NoStart == -1

\* group_hours.get(str(n), "yes")
StatusOf(statuses, n) == IF n \in DOMAIN statuses THEN statuses[n] ELSE "yes"

\* svitlo_yeah/api/dtek.py 41-62: the loop from hour n on, then the range
\* left open at the end of the day
RECURSIVE ParseFrom(_, _, _, _)
ParseFrom(statuses, n, result, outage_start) ==
    IF n > 24
    THEN IF outage_start # NoStart
         THEN Append(result, <<outage_start, Time(23, 59, 59)>>)
         ELSE result
    ELSE LET hour == n - 1
             status == StatusOf(statuses, n)
             started == IF outage_start # NoStart THEN outage_start
                        ELSE IF status = "second" THEN Time(hour, 30, 0)
                        ELSE Time(hour, 0, 0)
         IN  IF status = "yes"
             THEN IF outage_start # NoStart
                  THEN ParseFrom(statuses, n + 1, Append(result, <<outage_start, Time(hour, 0, 0)>>), NoStart)
                  ELSE ParseFrom(statuses, n + 1, result, NoStart)
             ELSE IF status = "first"
                  THEN ParseFrom(statuses, n + 1, Append(result, <<started, Time(hour, 30, 0)>>), NoStart)
                  ELSE ParseFrom(statuses, n + 1, result, started)

\* svitlo_yeah/api/dtek.py 19-64
_parse_group_hours(statuses) == ParseFrom(statuses, 1, <<>>, NoStart)

\* the hours whose status varies, the others being "yes", and what an hour
\* may hold; Absent is an hour with no key in the map
VariedHours == {1, 2, 13, 14, 15, 23, 24}
Absent == "absent"
Statuses == {"yes", "no", "first", "second"}
GroupHoursOf(f) == [n \in { k \in DOMAIN f : f[k] # Absent } |-> f[n]]

InitHours ==
    /\ schedule = ScheduleNone
    /\ daily_schedule = DailyNone
    /\ call = Idle
    /\ other = Idle
    /\ fetch = NoFetch
    /\ planned_outages_data = PlannedNone
    /\ answer = NoAnswer
    /\ outages = <<>>
    /\ merged = NotCalled
    /\ \E f \in [VariedHours -> Statuses \cup {Absent}] : group_hours = GroupHoursOf(f)
    /\ ranges = NotCalled
    /\ ElsewhereIdle

ParseGroupHours ==
    /\ ranges' = Result(_parse_group_hours(group_hours))
    /\ UNCHANGED <<schedule, daily_schedule, call, other, fetch, planned_outages_data, answer>>
    /\ UNCHANGED <<outages, merged, group_hours, elsewhere>>

NextHours == ParseGroupHours

SpecHours == InitHours /\ [][NextHours]_vars

\* the half-hours 0..47 of the day that are an outage: both of an hour
\* marked "no", the first of one marked "first", the second of one marked
\* "second"
HalfHours == 0..47
OutageHalves ==
    { h \in HalfHours :
        LET n == (h \div 2) + 1
        IN  /\ n \in DOMAIN group_hours
            /\ \/ group_hours[n] = "no"
               \/ group_hours[n] = "first" /\ h % 2 = 0
               \/ group_hours[n] = "second" /\ h % 2 = 1 }

\* the maximal outage ranges as <<first half-hour, last half-hour>>
MaximalRanges ==
    LET out == OutageHalves
        Firsts == { a \in out : a = 0 \/ (a - 1) \notin out }
        Lasts(a) == { b \in a..47 : (\A h \in a..b : h \in out) /\ (b = 47 \/ (b + 1) \notin out) }
    IN  UNION { { <<a, b>> : b \in Lasts(a) } : a \in Firsts }

\* a maximal range as the pair of times the function is to return
RangeTimes(r) ==
    <<Time(r[1] \div 2, (r[1] % 2) * 30, 0),
      IF r[2] = 47 THEN Time(23, 59, 59) ELSE Time((r[2] + 1) \div 2, ((r[2] + 1) % 2) * 30, 0)>>

\* C20: for every map of the 24 hourly statuses, _parse_group_hours returns,
\* in chronological order, the maximal outage ranges of the day, where hour n
\* marked "no" is an outage from (n-1):00 to n:00, "first" only for its first
\* half-hour, "second" only for its second half-hour, and "yes" or a missing
\* hour is no outage; the ranges are pairwise disjoint, each has start < end,
\* and a range that reaches the end of the day ends at 23:59:59.
C20_GroupHours ==
    ranges.called =>
        /\ { ranges.value[i] : i \in 1..Len(ranges.value) } = { RangeTimes(r) : r \in MaximalRanges }
        /\ Len(ranges.value) = Cardinality(MaximalRanges)
        /\ \A i \in 1..Len(ranges.value) : ranges.value[i][1] < ranges.value[i][2]
        /\ \A i \in 1..(Len(ranges.value) - 1) : ranges.value[i][2] <= ranges.value[i + 1][1]

\* ------------------------------------------------------------ the order of the edges
\* the step of the query in flight that processes one edge, with another
\* edge to follow: a is the edge processed, b the edge processed next
TwoEdges == CanEdge(call) /\ call' = StepEdge(call) /\ CanEdge(call')

\* C22: whenever two edges carry the same timestamp, gen_events processes
\* open edges in order of decreasing priority and close edges in order of
\* increasing priority, whichever source produced them: of two edges with
\* one timestamp processed one after the other, two opens do not go up in
\* priority and two closes do not go down.
C22_TieOrder ==
    [][ TwoEdges =>
          LET a == NextEdge(call)
              b == NextEdge(call')
          IN  a.at = b.at =>
                /\ (a.action = "open" /\ b.action = "open") => a.priority >= b.priority
                /\ (a.action = "close" /\ b.action = "close") => a.priority <= b.priority ]_vars

\* ------------------------------------------------------------ exception day boundaries
\* the midnights B inside the query window at which an exception day begins
\* after an ordinary day, or ends before an ordinary day
DayBegins(B) ==
    /\ B \in Window /\ B > call.start_date /\ HourOf(B) = 0
    /\ IsExceptionDay(call.ce, DayOf(B)) /\ ~IsExceptionDay(call.ce, DayOf(B) - 1)
DayEnds(B) ==
    /\ B \in Window /\ B > call.start_date /\ HourOf(B) = 0
    /\ IsExceptionDay(call.ce, DayOf(B) - 1) /\ ~IsExceptionDay(call.ce, DayOf(B))

\* the labels of the weekly slots that end at 24:00 of the day before B, and
\* of those that start at 00:00 of the day of B
EndingAt(gs, B) ==
    IF gs = <<>> THEN {}
    ELSE { gs[Weekday(B - 1) + 1][i].type :
             i \in { j \in DOMAIN gs[Weekday(B - 1) + 1] : gs[Weekday(B - 1) + 1][j].end = END_OF_DAY } }
StartingAt(gs, B) ==
    IF gs = <<>> THEN {}
    ELSE { gs[Weekday(B) + 1][i].type :
             i \in { j \in DOMAIN gs[Weekday(B) + 1] : gs[Weekday(B) + 1][j].start = START_OF_DAY } }

\* C23: where an exception day's boundary coincides with a weekly slot
\* boundary there is no timing gap: a weekly slot that ends exactly when the
\* exception day begins is returned up to that instant, and a weekly slot
\* that starts exactly when the exception day ends is returned from that
\* instant with its own label.
C23_BoundaryNoGap ==
    Returned("events") =>
        \A B \in Window :
            /\ DayBegins(B) =>
                  \A L \in EndingAt(call.gs, B) :
                      \E i \in DOMAIN call.result :
                          /\ call.result[i].summary = L
                          /\ call.result[i].start < B /\ call.result[i].end >= B
            /\ DayEnds(B) =>
                  \A L \in StartingAt(call.gs, B) :
                      \E i \in DOMAIN call.result :
                          /\ call.result[i].summary = L
                          /\ call.result[i].start <= B /\ call.result[i].end > B

\* C24: the edge sequence that gen_events processes is in non-decreasing
\* timestamp order for any order in which the exception records are listed:
\* of two edges processed one after the other the second is not earlier,
\* and no step that processes an edge moves the cursor `now` back.
C24_EdgesInTimeOrder ==
    [][ /\ TwoEdges => NextEdge(call).at <= NextEdge(call').at
        /\ (CanEdge(call) /\ call' = StepEdge(call) /\ call.m.now # NoneT)
              => call'.m.now >= call.m.now ]_vars

\* ------------------------------------------------------------ runs of override slots
\* the dated records are listed in increasing order of their dates
Chronological(ce) ==
    LET dated == SelectSeq(ce.recs, LAMBDA r : r.title = "date")
    IN  \A i \in 1..(Len(dated) - 1) : dated[i].date < dated[i + 1].date

\* the instants t at which one override slot labelled L ends and another
\* labelled L begins, t - 1 and t both lying on exception days
OverrideRunAt(ce, t, L) ==
    /\ IsExceptionDay(ce, DayOf(t - 1)) /\ IsExceptionDay(ce, DayOf(t))
    /\ L \in OverrideLabels(ce, t - 1) /\ L \in OverrideLabels(ce, t)

\* C26: a run of override slots with the same label that touch end-to-start
\* is returned as one interval, also when the run crosses the midnight
\* between two consecutive exception days: where the run passes an instant
\* t, one event with the label has t in its interior, and no two events
\* with the label meet at t.
C26_OverrideRunMerged ==
    (Returned("events") /\ Chronological(call.ce)) =>
        \A t \in Window : \A L \in {"outage", "maintenance"} :
            (t > call.start_date /\ OverrideRunAt(call.ce, t, L)) =>
                /\ \E i \in DOMAIN call.result :
                      /\ call.result[i].summary = L
                      /\ call.result[i].start < t /\ t < call.result[i].end
                /\ ~\E i \in 1..(Len(call.result) - 1) :
                      /\ call.result[i].end = t /\ call.result[i + 1].start = t
                      /\ call.result[i].summary = L /\ call.result[i + 1].summary = L

\* ------------------------------------------------------------ two records of one date
\* a dated record is followed in the list by another record of its date
Superseded(recs, i) ==
    recs[i].title = "date" /\ \E j \in (i + 1)..Len(recs) : recs[j].title = "date" /\ recs[j].date = recs[i].date

DuplicateDate(ce) == ce.kind = "Data" /\ \E i \in DOMAIN ce.recs : Superseded(ce.recs, i)

\* the exception data with, of the records of one date, only the last
RECURSIVE LastOfDate(_, _)
LastOfDate(recs, i) ==
    IF i > Len(recs) THEN <<>>
    ELSE (IF Superseded(recs, i) THEN <<>> ELSE <<recs[i]>>) \o LastOfDate(recs, i + 1)

LastOnly(ce) == DailyOf(LastOfDate(ce.recs, 1))

\* C27: when two exception records carry the same date, only the last one
\* parsed takes effect: the earlier record produces no edges, and the query
\* returns what it returns for the data without the earlier record.
C27_LastRecordWins ==
    (Returned("events") /\ DuplicateDate(call.ce)) =>
        /\ gen_exception_events(call.ce, call.start_date)
              = gen_exception_events(LastOnly(call.ce), call.start_date)
        /\ call.result = Requery(call, LastOnly(call.ce)).result

\* ------------------------------------------------------------ close edges
\* the step of the query in flight that processes a close edge
CloseStep == CanEdge(call) /\ call' = StepEdge(call) /\ NextEdge(call).action = "close"

\* the open edge that matches the close edge about to be processed was
\* ignored or never made an entry: the entry of its layer is None or is
\* already closed
NotItsOwn(c) ==
    LET p == NextEdge(c).priority
    IN  p > Len(c.m.stack) \/ c.m.stack[p].null \/ c.m.stack[p].hasEnd

\* C28: during one evaluation of gen_events a close edge changes only the
\* interval opened by its own matching open edge: when that open edge was
\* ignored, the close edge leaves every stack entry unchanged, so the end of
\* an interval that was already closed is never moved.
C28_CloseOwnInterval ==
    [][ CloseStep =>
          /\ NotItsOwn(call) => call'.m.stack = call.m.stack
          /\ \A k \in DOMAIN call.m.stack :
                call.m.stack[k].hasEnd =>
                    (k \in DOMAIN call'.m.stack /\ call'.m.stack[k].end = call.m.stack[k].end) ]_vars

\* ------------------------------------------------------------ the weekly stream
\* the edges the weekly generator yields from position w on, until the
\* model's last day
RECURSIVE Yielded(_, _)
Yielded(gs, w) ==
    IF w.st # "y" THEN <<>> ELSE <<HeadW(gs, w)>> \o Yielded(gs, AdvanceW(gs, w))

\* what the stream is to be: for the days d from the Monday of the anchor's
\* week on, the slots of the list of d's weekday, each with an open edge at
\* dayStart + start and a close edge at dayStart + end
RECURSIVE SlotPairs(_, _, _)
SlotPairs(slots, dayStart, i) ==
    IF i > Len(slots) THEN <<>>
    ELSE << Edge(dayStart + slots[i].start, 1, "open", slots[i].type),
            Edge(dayStart + slots[i].end, 1, "close", slots[i].type) >>
         \o SlotPairs(slots, dayStart, i + 1)

RECURSIVE DaysFrom(_, _)
DaysFrom(gs, d) ==
    IF d > MaxDay THEN <<>>
    ELSE SlotPairs(gs[(d % WeekDays) + 1], d * DayHours, 1) \o DaysFrom(gs, d + 1)

\* the edges of a sequence before its first edge past the model's last hour
RECURSIVE UpToHorizon(_)
UpToHorizon(edges) ==
    IF edges = <<>> \/ Head(edges).at > MaxT THEN <<>> ELSE <<Head(edges)>> \o UpToHorizon(Tail(edges))

WeekStream(gs, anchor) == UpToHorizon(DaysFrom(gs, DayOf(anchor) - (DayOf(anchor) % WeekDays)))

\* a frame was just made: heapq.merge has started the weekly generator and
\* no edge has been processed
Started == call.pc = "run" /\ call.m.now = NoneT /\ Len(call.gs) = WeekDays

ProbableEvent(start, end) == [event_type |-> "Definite", start |-> start, end |-> end]

\* api/probable.py 45-94: no slots without data or without the group; a
\* slot is dropped when OutageEventType(slot["type"]) or a subscript raises
get_probable_slots_for_weekday(data, weekday) ==
    IF data.kind # "Data" THEN <<>>
    ELSE LET Parsed(slot) == {"type", "start", "end"} \subseteq slot.has /\ slot.type \in EventTypes
             kept == SelectSeq(data.slots[weekday], Parsed)
         IN  [i \in 1..Len(kept) |-> OutageSlot(kept[i].start, kept[i].end, kept[i].type)]

\* api/probable.py 124-130: the day of the first date of this weekday that
\* is not before the day of start_date
first_occurrence(weekday, start_date) ==
    LET day == start_date \div DayMinutes
        days_ahead == weekday - (day % WeekDays)
    IN  day + (IF days_ahead < 0 THEN days_ahead + WeekDays ELSE days_ahead)

\* api/probable.py 134-139, rrule(freq=WEEKLY, dtstart, until, byweekday)
\* with dtstart on that weekday: the midnights dtstart, dtstart + 7 days, ...
\* that are not after until
RECURSIVE rrule(_, _)
rrule(dtstart, until) ==
    IF dtstart * DayMinutes > until THEN <<>>
    ELSE <<dtstart>> \o rrule(dtstart + WeekDays, until)

\* api/probable.py 134-141: the occurrences of one slot, before the range
\* test
Occurrences(slot, weekday, start_date, end_date) ==
    LET dates == rrule(first_occurrence(weekday, start_date), end_date)
    IN  [i \in 1..Len(dates) |->
            ProbableEvent(minutes_to_time(slot.start, dates[i]), minutes_to_time(slot.end, dates[i]))]

\* api/probable.py 119-121
Definite(slot) == slot.event_type = "Definite"

\* api/probable.py 119-153 for the slots of one weekday from the i-th on
RECURSIVE SlotsFrom(_, _, _, _, _)
SlotsFrom(slots, i, weekday, start_date, end_date) ==
    IF i > Len(slots) THEN <<>>
    ELSE Occurrences(slots[i], weekday, start_date, end_date)
         \o SlotsFrom(slots, i + 1, weekday, start_date, end_date)

\* api/probable.py 115-117 for the weekdays from this one on
RECURSIVE WeekdaysFrom(_, _, _, _)
WeekdaysFrom(data, weekday, start_date, end_date) ==
    IF weekday >= WeekDays THEN <<>>
    ELSE SlotsFrom(SelectSeq(get_probable_slots_for_weekday(data, weekday), Definite),
                   1, weekday, start_date, end_date)
         \o WeekdaysFrom(data, weekday + 1, start_date, end_date)

\* api/probable.py 96-156: minutes_to_time raises ValueError for an hour
\* that is no hour; an occurrence is skipped when it ends before start_date
\* or starts after end_date (143-145); the rest is sorted by start
Probable_get_events(data, start_date, end_date) ==
    LET all == WeekdaysFrom(data, 0, start_date, end_date)
        Inside(event) == ~(event.end < start_date \/ event.start > end_date)
    IN  IF \E i \in 1..Len(all) : all[i].start = NoTime \/ all[i].end = NoTime
        THEN Raises("ValueError")
        ELSE Gives(SortByStart(SelectSeq(all, Inside)))

\* ------------------------------------------------------------ ProbableOutagesApi: the object
ProbableMonday ==
    { <<>>, <<D(480, 720)>>, <<D(1320, 1440)>>, <<D(480, 720), N(720, 900), D(1320, 1440)>> }
ProbableTuesday ==
    { <<>>, <<D(600, 900)>>, <<D(0, 120)>>, <<N(0, 1440)>>,
      <<RawSlot(0, 60, "InvalidType"), D(600, 900)>> }
ProbableSunday == { <<>>, <<D(1200, 1440)>> }

ProbableWeek(mon, tue, sun) ==
    [weekday \in 0..(WeekDays - 1) |->
        IF weekday = 0 THEN mon ELSE IF weekday = 1 THEN tue
        ELSE IF weekday = WeekDays - 1 THEN sun ELSE <<>>]

\* the last with a slot whose hours are no hours of a day
ProbableResponses ==
    { ProbableOf(ProbableWeek(mon, tue, sun)) :
         mon \in ProbableMonday, tue \in ProbableTuesday, sun \in ProbableSunday }
    \cup { ProbableNoGroup, ProbableOf(ProbableWeek(<<D(1500, 1560)>>, <<>>, <<>>)) }

\* ranges that start on Monday 00:00, Tuesday 00:00, Tuesday 02:00 and
\* Wednesday 12:00 of the first week
ProbableStarts == { 0, DayMinutes, DayMinutes + 120, 2 * DayMinutes + 720 }
ProbableSpans == { 600, DayMinutes, 6 * DayMinutes, WeekDays * DayMinutes, 2 * WeekDays * DayMinutes }

InitProbable ==
    /\ schedule = ScheduleNone
    /\ daily_schedule = DailyNone
    /\ call = Idle
    /\ other = Idle
    /\ fetch = NoFetch
    /\ planned_outages_data = PlannedNone
    /\ answer = NoAnswer
    /\ FunctionsIdle

\* what the ProbableOutagesApi object leaves alone
beside == <<schedule, daily_schedule, call, other, fetch, planned_outages_data, answer,
            outages, merged, group_hours, ranges, dtek, coordination>>

\* api/probable.py 29-43 on an object with region and provider set: the
\* response replaces the data
FetchProbable ==
    /\ \E new_data \in ProbableResponses : probable_outages_data' = new_data
    /\ listed' = NotListed
    /\ UNCHANGED beside

ProbableGetEvents ==
    /\ \E start_date \in ProbableStarts, span \in ProbableSpans :
          LET given == Probable_get_events(probable_outages_data, start_date, start_date + span)
          IN  listed' = [called |-> TRUE, start |-> start_date, end |-> start_date + span,
                         exc |-> given.exc, events |-> given.events]
    /\ UNCHANGED probable_outages_data
    /\ UNCHANGED beside

NextProbable ==
    \/ FetchProbable
    \/ ProbableGetEvents

SpecProbable == InitProbable /\ [][NextProbable]_vars

\* ------------------------------------------------------------ probable events
\* a slot dict that get_probable_slots_for_weekday keeps as a Definite slot
\* of the day: start before end, both within the day
DefiniteSlot(slot) ==
    /\ {"type", "start", "end"} \subseteq slot.has
    /\ slot.type = "Definite"
    /\ 0 <= slot.start /\ slot.start < slot.end /\ slot.end <= DayMinutes

WellFormed(data) ==
    \A weekday \in DOMAIN data.slots : \A i \in DOMAIN data.slots[weekday] :
        LET slot == data.slots[weekday][i]
        IN  ({"type", "start", "end"} \subseteq slot.has /\ slot.type = "Definite") => DefiniteSlot(slot)

\* the pairs (Definite slot i of weekday w, date d of weekday w) whose
\* interval [d + start, d + end] meets [start_date, end_date], the two ends
\* of each counted in as in the range test of get_events
Pairs(data, start_date, end_date) ==
    IF data.kind # "Data" THEN {}
    ELSE { p \in (0..(WeekDays - 1)) \X (1..3) \X (((start_date \div DayMinutes) - 1)..((end_date \div DayMinutes) + 1)) :
             /\ p[3] >= 0
             /\ p[3] % WeekDays = p[1]
             /\ p[2] \in DOMAIN data.slots[p[1]]
             /\ DefiniteSlot(data.slots[p[1]][p[2]])
             /\ p[3] * DayMinutes + data.slots[p[1]][p[2]].end >= start_date
             /\ p[3] * DayMinutes + data.slots[p[1]][p[2]].start <= end_date }

EventOf(data, p) ==
    ProbableEvent(p[3] * DayMinutes + data.slots[p[1]][p[2]].start,
                  p[3] * DayMinutes + data.slots[p[1]][p[2]].end)

\* C21: get_events(start_date, end_date) returns exactly one event for
\* each pair of a Definite slot of weekday w and a date of weekday w whose
\* interval intersects the range, and nothing else (so the occurrences of
\* one slot are 7 days apart with the same times of day, and NotPlanned
\* slots give nothing), sorted by start.
C21_ProbableEvents ==
    (listed.called /\ WellFormed(probable_outages_data)) =>
        LET pairs == Pairs(probable_outages_data, listed.start, listed.end)
        IN  /\ listed.exc = ""
            /\ SortedByStart(listed.events)
            /\ \A i \in DOMAIN listed.events :
                  \E p \in pairs : EventOf(probable_outages_data, p) = listed.events[i]
            /\ \A p \in pairs :
                  Cardinality({ i \in DOMAIN listed.events :
                                  listed.events[i] = EventOf(probable_outages_data, p) })
                  = Cardinality({ q \in pairs :
                                  EventOf(probable_outages_data, q) = EventOf(probable_outages_data, p) })

\* ------------------------------------------------------------ DtekAPI.fetch_data
\* the last minute of the clock
MaxNow == 40

\* the schedules a response can hold
Schedules == {"fact1", "fact2"}

\* svitlo_yeah/api/dtek.py 101-104: the shared timestamp is set and less
\* than cache_minutes old (times in minutes)
Cached(now, cache_minutes) ==
    _last_fetch # NoFetchTime /\ (now - _last_fetch) * 60 < cache_minutes * 60

CacheMinutes == {10, 15}

\* what the DtekAPI objects leave alone
apart == <<schedule, daily_schedule, call, other, fetch, planned_outages_data, answer,
           outages, merged, group_hours, ranges, probable_outages_data, listed, coordination>>

\* datetime.now moves on
Tick ==
    /\ \E minutes \in {5, 10} : clock + minutes <= MaxNow /\ clock' = clock + minutes
    /\ UNCHANGED <<_last_fetch, _cached_data, self_data, flight, served>>
    /\ UNCHANGED apart

\* svitlo_yeah/api/dtek.py 98-114: the call reads the clock; with a fresh
\* cache it takes the cached data and returns, otherwise it sends the
\* request and waits
FetchData(self) ==
    /\ flight[self].pc = "idle"
    /\ \E cache_minutes \in CacheMinutes :
          IF Cached(clock, cache_minutes)
          THEN /\ self_data' = [self_data EXCEPT ![self] = _cached_data]
               /\ served' = [self |-> self, now |-> clock, cache_minutes |-> cache_minutes, request |-> FALSE]
               /\ UNCHANGED flight
          ELSE /\ flight' = [flight EXCEPT ![self] = [pc |-> "request", now |-> clock]]
               /\ served' = [self |-> self, now |-> clock, cache_minutes |-> cache_minutes, request |-> TRUE]
               /\ UNCHANGED self_data
    /\ UNCHANGED <<_last_fetch, _cached_data, clock>>
    /\ UNCHANGED apart

\* svitlo_yeah/api/dtek.py 115-118 with 67-84: the response arrives and
\* _extract_data gives the schedule, or None when the page holds none or
\* its JSON does not parse
ResponseArrives(self) ==
    /\ flight[self].pc = "request"
    /\ \E extracted \in Schedules \cup {NoData} :
          /\ self_data' = [self_data EXCEPT ![self] = extracted]
          /\ _cached_data' = extracted
    /\ _last_fetch' = flight[self].now
    /\ flight' = [flight EXCEPT ![self] = NoFlight]
    /\ UNCHANGED <<clock, served>>
    /\ UNCHANGED apart

\* svitlo_yeah/api/dtek.py 111-115, 119-121: the request raises
RequestFails(self) ==
    /\ flight[self].pc = "request"
    /\ self_data' = [self_data EXCEPT ![self] = NoData]
    /\ flight' = [flight EXCEPT ![self] = NoFlight]
    /\ UNCHANGED <<_last_fetch, _cached_data, clock, served>>
    /\ UNCHANGED apart

NextDtek ==
    \/ Tick
    \/ \E self \in Instances : FetchData(self)
    \/ \E self \in Instances : ResponseArrives(self)
    \/ \E self \in Instances : RequestFails(self)

SpecDtek == Init /\ [][NextDtek]_vars

\* C29: the shared cache timestamp is recorded only together with
\* successfully extracted schedule data: a step that changes _last_fetch or
\* _cached_data leaves extracted data in the cache, so a response with no
\* schedule leaves the cache as it was; and a fetch_data call that begins
\* less than cache_minutes after the recorded fetch sends no request and
\* takes the cached data.
C29_CacheOnlyWithData ==
    [][ /\ (_last_fetch' # _last_fetch \/ _cached_data' # _cached_data) => _cached_data' \in Schedules
        /\ (served' # served /\ _last_fetch # NoFetchTime
            /\ served'.now - _last_fetch < served'.cache_minutes) =>
              /\ ~served'.request
              /\ flight' = flight
              /\ self_data'[served'.self] = _cached_data ]_vars

\* ------------------------------------------------------------ YasnoOutagesCoordinator
\* a region or provider dict of the regions response: has = the keys it
\* holds
Provider(name, id) == [has |-> {"name", "id"}, name |-> name, id |-> id]
Region(value, id, dsos) == [has |-> {"value", "id", "dsos"}, value |-> value, id |-> id, dsos |-> dsos]
RegionWithoutId(value, dsos) == [has |-> {"value", "dsos"}, value |-> value, id |-> NoId, dsos |-> dsos]

\* self.region and self.provider of the coordinator, set from the config
\* entry
ConfiguredNames == { <<"Kyiv", "DTEK">>, <<"Kyiv", "Other">>, <<"Lviv", "LOE">>, <<"Odesa", "DTEK">> }

\* the lists a regions response can hold
RegionLists ==
    { << Region("Lviv", 3, <<Provider("LOE", 301)>>), Region("Kyiv", 25, <<Provider("Other", 901), Provider("DTEK", 902)>>) >>,
      << Region("Kyiv", 25, <<Provider("Other", 901)>>) >>,
      << Region("Lviv", 3, <<Provider("DTEK", 301)>>) >>,
      << RegionWithoutId("Kyiv", <<Provider("DTEK", 902)>>) >>,
      << >> }

\* api/base.py 81-86
get_region_by_name(regions_data, region_name) ==
    LET Named(region) == region.value = region_name
    IN  SelectSeq(regions_data, Named)

\* api/base.py 88-101
get_provider_by_name(regions_data, region_name, provider_name) ==
    LET region == get_region_by_name(regions_data, region_name)
        Named(provider) == provider.name = provider_name
    IN  IF region = <<>> THEN <<>> ELSE SelectSeq(Head(region).dsos, Named)

\* coordinator.py 202-214 on an api object with these regions: the
\* coordinator with the ids it finds, or raised = TRUE where a subscript
\* raises KeyError (the region id is kept when the provider's raises)
_resolve_ids(c, regions_data) ==
    LET region_data == get_region_by_name(regions_data, c.region)
        provider_data == get_provider_by_name(regions_data, c.region, c.provider)
        found == [c EXCEPT !.api.regions_data = regions_data]
    IN  IF region_data = <<>> THEN [raised |-> FALSE, c |-> found]
        ELSE IF "id" \notin Head(region_data).has THEN [raised |-> TRUE, c |-> found]
        ELSE LET with_region == [found EXCEPT !.region_id = Head(region_data).id]
             IN  IF provider_data = <<>> THEN [raised |-> FALSE, c |-> with_region]
                 ELSE IF "id" \notin Head(provider_data).has THEN [raised |-> TRUE, c |-> with_region]
                 ELSE [raised |-> FALSE, c |-> [with_region EXCEPT !.provider_id = Head(provider_data).id]]

\* what the coordinator leaves alone
aside == <<schedule, daily_schedule, call, other, fetch, planned_outages_data, answer,
           outages, merged, group_hours, ranges, probable_outages_data, listed, dtek>>

Begun(resolved, unset) == [NoUpdate EXCEPT !.pc = "planned", !.resolved = resolved, !.unset = unset]
Failed(u, stage) == [u EXCEPT !.pc = "idle", !.outcome = "UpdateFailed", !.failed = stage]

\* coordinator.py 165-170: both ids are set, the update goes on to the
\* planned outages
UpdateResolved ==
    /\ update.pc = "idle"
    /\ coordinator.region_id # NoId /\ coordinator.provider_id # NoId
    /\ update' = Begun(FALSE, FALSE)
    /\ UNCHANGED coordinator
    /\ UNCHANGED aside

\* coordinator.py 170-182 with 197-214 and api/base.py 65-72: an id is
\* unset; _resolve_ids fetches the regions unless the api object holds some,
\* and looks the ids up; when it returns, a new YasnoApi object with the
\* ids replaces self.api
UpdateResolves ==
    /\ update.pc = "idle"
    /\ coordinator.region_id = NoId \/ coordinator.provider_id = NoId
    /\ \E regions_data \in
             (IF coordinator.api.regions_data = <<>> THEN RegionLists ELSE {coordinator.api.regions_data}) :
          LET r == _resolve_ids(coordinator, regions_data)
          IN  IF r.raised
              THEN /\ coordinator' = r.c
                   /\ update' = Failed(Begun(TRUE, TRUE), "resolve")
              ELSE /\ coordinator' = [r.c EXCEPT !.api = YasnoApi(r.c.region_id, r.c.provider_id)]
                   /\ update' = Begun(TRUE, TRUE)
    /\ UNCHANGED aside

\* coordinator.py 171-175 with api/base.py 45-72: fetch_regions raises
\* YasnoApiError, for a failed request or a response that is no list
ResolveFails ==
    /\ update.pc = "idle"
    /\ coordinator.region_id = NoId \/ coordinator.provider_id = NoId
    /\ coordinator.api.regions_data = <<>>
    /\ update' = Failed(Begun(TRUE, TRUE), "resolve")
    /\ UNCHANGED coordinator
    /\ UNCHANGED aside

PlannedData == {"planned1", "planned2"}
ProbableData == {"probable1", "probable2"}

\* api/planned.py 36-42: the request is sent only with both ids set
CanFetch(api) == api.region_id # NoId /\ api.provider_id # NoId

\* coordinator.py 184-186 with api/planned.py 36-56: without an id the
\* fetch returns at once and sends no request (planned stays FALSE); else
\* the response replaces the data, or a null response keeps it
PlannedFetched ==
    /\ update.pc = "planned"
    /\ IF ~CanFetch(coordinator.api)
       THEN /\ UNCHANGED coordinator
            /\ update' = [update EXCEPT !.pc = "probable"]
       ELSE \E new_data \in PlannedData \cup {NoData} :
               /\ coordinator' = [coordinator EXCEPT !.api.planned_outages_data =
                                     IF new_data = NoData THEN @ ELSE new_data]
               /\ update' = [update EXCEPT !.pc = "probable", !.planned = TRUE]
    /\ UNCHANGED aside

\* coordinator.py 187-189: the request raises YasnoApiError
PlannedFails ==
    /\ update.pc = "planned"
    /\ CanFetch(coordinator.api)
    /\ update' = Failed(update, "planned")
    /\ UNCHANGED coordinator
    /\ UNCHANGED aside

\* coordinator.py 191-193 with api/probable.py 29-43
ProbableFetched ==
    /\ update.pc = "probable"
    /\ IF ~CanFetch(coordinator.api)
       THEN UNCHANGED coordinator
       ELSE \E new_data \in ProbableData :
               coordinator' = [coordinator EXCEPT !.api.probable_outages_data = new_data]
    /\ update' = [update EXCEPT !.pc = "idle", !.outcome = "completed"]
    /\ UNCHANGED aside

\* coordinator.py 194-195: the request raises, which is logged
ProbableFails ==
    /\ update.pc = "probable"
    /\ CanFetch(coordinator.api)
    /\ update' = [update EXCEPT !.pc = "idle", !.outcome = "completed", !.failed = "probable"]
    /\ UNCHANGED coordinator
    /\ UNCHANGED aside

NextCoordinator ==
    \/ UpdateResolved
    \/ UpdateResolves
    \/ ResolveFails
    \/ PlannedFetched
    \/ PlannedFails
    \/ ProbableFetched
    \/ ProbableFails

InitCoordinator ==
    /\ schedule = ScheduleNone
    /\ daily_schedule = DailyNone
    /\ call = Idle
    /\ other = Idle
    /\ fetch = NoFetch
    /\ planned_outages_data = PlannedNone
    /\ answer = NoAnswer
    /\ outages = <<>> /\ merged = NotCalled /\ group_hours = NoHours /\ ranges = NotCalled
    /\ probable_outages_data = ProbableNone /\ listed = NotListed
    /\ DtekIdle
    /\ \E names \in ConfiguredNames : coordinator = NewCoordinator(names[1], names[2])
    /\ update = NoUpdate

SpecCoordinator == InitCoordinator /\ [][NextCoordinator]_vars

\* C30: an update in which ID resolution or the planned fetch fails ends
\* with UpdateFailed; one in which only the probable fetch fails completes;
\* an update that completes has fetched planned data, with the region id
\* and the provider id resolved; and ID resolution runs only in an update
\* that found one of the two ids unset.
C30_UpdateOutcome ==
    /\ update.failed \in {"resolve", "planned"} => update.outcome = "UpdateFailed"
    /\ update.failed = "probable" => update.outcome = "completed"
    /\ update.outcome = "completed" =>
          /\ update.planned
          /\ coordinator.region_id # NoId /\ coordinator.provider_id # NoId
          /\ CanFetch(coordinator.api)
    /\ update.resolved => update.unset
====
